---- MODULE Spec2Model ----
(***************************************************************************)
(* A model of libstage/model.cc: the StgModel scene tree, its blocks, the  *)
(* raster index the blocks are rendered into, and the kinematic update.    *)
(*                                                                         *)
(* Numbers.  Lengths (x, y, z, sizes, ranges) are integers counted in      *)
(* tenths of a metre, headings are integers counted in quarter turns       *)
(* (1 = pi/2), velocities are length units (quarter turns) per second and  *)
(* times are microseconds.  cos and sin are exact on quarter turns.        *)
(*                                                                         *)
(* Every C++ method is an operator from a program state S (a record of the *)
(* models, the world and the global model counter) to a record             *)
(* [S |-> the state after the call, ret |-> the returned value]; methods   *)
(* that return nothing yield the state alone.  An action applies one       *)
(* public method to the current state.                                     *)
(***************************************************************************)
EXTENDS Integers, Sequences, FiniteSets, TLC

VARIABLES mods,    \* id -> the StgModel object with that id
          world,   \* the StgWorld object (lists, clock, raster index)
          count,   \* StgModel::count, the process-wide id counter
          modelsbyid, \* the keys of StgModel::modelsbyid
          log,     \* hooks and callbacks run by the last call, in order
          op       \* the last call: its name, receiver, argument and result

vars == <<mods, world, count, modelsbyid, log, op>>

NULL == -1

-----------------------------------------------------------------------------
(* Units and world constants *)

PixelSize == 2               \* length units per pixel: 1/ppm, at ppm = 5
RegionSize == 4              \* pixels along the side of a region
SuperRegionSize == 16        \* pixels along the side of a superregion
UintMax == 2147483647        \* stands for UINT_MAX, the value an unsigned counter wraps to
UsecPerSec == 1000000
TrailLength == 100
TrailPeriod == 10

-----------------------------------------------------------------------------
(* Geometry primitives *)

Pose(x, y, z, a) == [x |-> x, y |-> y, z |-> z, a |-> a]
Size(x, y, z) == [x |-> x, y |-> y, z |-> z]
Point(x, y) == [x |-> x, y |-> y]
ZeroPose == Pose(0, 0, 0, 0)

Abs(n) == IF n < 0 THEN -n ELSE n
Max(a, b) == IF a > b THEN a ELSE b

\* cos and sin of a heading given in quarter turns
Cos(a) == CASE a % 4 = 0 -> 1 [] a % 4 = 1 -> 0 [] a % 4 = 2 -> -1 [] OTHER -> 0
Sin(a) == CASE a % 4 = 0 -> 0 [] a % 4 = 1 -> 1 [] a % 4 = 2 -> 0 [] OTHER -> -1

\* the heading brought into (-pi, pi], i.e. into -1 .. 2 quarter turns
normalize(a) == IF a % 4 = 3 THEN -1 ELSE a % 4

\* p2, expressed in the frame p1, in the frame p1 is expressed in
pose_sum(p1, p2) ==
  [x |-> p1.x + p2.x * Cos(p1.a) - p2.y * Sin(p1.a),
   y |-> p1.y + p2.x * Sin(p1.a) + p2.y * Cos(p1.a),
   z |-> p1.z + p2.z,
   a |-> p1.a + p2.a]

velocity_is_nonzero(v) == v.x # 0 \/ v.y # 0 \/ v.z # 0 \/ v.a # 0

\* floor(x * ppm) for x in length units
MetersToPixels(x) == x \div PixelSize

-----------------------------------------------------------------------------
(* Sequence helpers (GList / GSList / GArray) *)

RECURSIVE list_remove(_, _)
\* g_list_remove: the list without the first element equal to e
list_remove(s, e) ==
  IF s = <<>> THEN <<>>
  ELSE IF Head(s) = e THEN Tail(s)
  ELSE <<Head(s)>> \o list_remove(Tail(s), e)

list_prepend(s, e) == <<e>> \o s
list_append(s, e) == Append(s, e)
list_find(s, e) == \E i \in 1..Len(s) : s[i] = e
Occurrences(s, e) == Cardinality({i \in 1..Len(s) : s[i] = e})

-----------------------------------------------------------------------------
(* The raster index: pixel -> list of links, newest first.  A link stands  *)
(* for one GSList cell; its identity is the block that inserted it and the *)
(* position of the handle the block keeps for it.                          *)

Region(pix) == <<pix[1] \div RegionSize, pix[2] \div RegionSize>>
SuperRegion(pix) == <<pix[1] \div SuperRegionSize, pix[2] \div SuperRegionSize>>

CellList(index, pix) == IF pix \in DOMAIN index THEN index[pix] ELSE <<>>
Counter(c, r) == IF r \in DOMAIN c THEN c[r] ELSE 0

\* ++ and -- on an unsigned int
CounterInc(n) == IF n = UintMax THEN 0 ELSE n + 1
CounterDec(n) == IF n = 0 THEN UintMax ELSE n - 1

SetCell(index, pix, cell) ==
  IF cell = <<>>
  THEN [p \in (DOMAIN index) \ {pix} |-> index[p]]
  ELSE [p \in (DOMAIN index) \cup {pix} |-> IF p = pix THEN cell ELSE index[p]]

SetCounter(c, r, n) ==
  IF n = 0
  THEN [q \in (DOMAIN c) \ {r} |-> c[q]]
  ELSE [q \in (DOMAIN c) \cup {r} |-> IF q = r THEN n ELSE c[q]]

\* g_slist_delete_link: the list without the cell whose identity is lk
delete_link(cell, lk) ==
  SelectSeq(cell, LAMBDA l : <<l.blk, l.k>> # lk)

\* StgBlock::RecordRenderPoint
RecordRenderPoint(b, pix, lk) ==
  [b EXCEPT !.rendered_points = Append(@, [pix |-> pix, link |-> lk])]

\* StgWorld::AddBlockPixel: insert the block at the head of the pixel's
\* list, bump the region and superregion counters, hand the block a handle
AddBlockPixel(S, m, i, pix) ==
  LET b == S.mods[m].blocks[i]
      lk == <<b.id, Len(b.rendered_points) + 1>>
      cell == <<[blk |-> b.id, k |-> lk[2], mod |-> m]>> \o CellList(S.w.index, pix)
  IN [S EXCEPT
        !.w.index = SetCell(@, pix, cell),
        !.w.c1 = SetCounter(@, Region(pix),
                            CounterInc(Counter(@, Region(pix)))),
        !.w.c2 = SetCounter(@, SuperRegion(pix),
                            CounterInc(Counter(@, SuperRegion(pix)))),
        !.mods[m].blocks[i] = RecordRenderPoint(b, pix, lk)]

\* the pixels of the integer line from p to q, both ends included
LinePixels(p, q) ==
  LET dx == q[1] - p[1]
      dy == q[2] - p[2]
      n == Max(Abs(dx), Abs(dy))
  IN IF n = 0 THEN <<p>>
     ELSE [k \in 1..(n + 1) |->
             <<p[1] + (2 * (k - 1) * dx + n) \div (2 * n),
               p[2] + (2 * (k - 1) * dy + n) \div (2 * n)>>]

RECURSIVE PolygonPixelsFrom(_, _)
PolygonPixelsFrom(pix, e) ==
  IF e > Len(pix) THEN <<>>
  ELSE LinePixels(pix[e], pix[(e % Len(pix)) + 1]) \o PolygonPixelsFrom(pix, e + 1)

\* stg_polygon_3d: every edge of the outline is walked in turn
stg_polygon_3d(pix) == PolygonPixelsFrom(pix, 1)

RECURSIVE AddBlockPixels(_, _, _, _)
AddBlockPixels(S, m, i, pixels) ==
  IF pixels = <<>> THEN S
  ELSE AddBlockPixels(AddBlockPixel(S, m, i, Head(pixels)), m, i, Tail(pixels))

-----------------------------------------------------------------------------
(* Blocks *)

\* StgBlock::StgBlock
NewBlock(id, pts, zmin, zmax) ==
  [id |-> id, pts |-> pts, zmin |-> zmin, zmax |-> zmax,
   global_zmin |-> -1, global_zmax |-> -1,
   rendered_points |-> <<>>]

RECURSIVE UnMapPoints(_, _)
\* the loop of StgBlock::UnMap over the handles hs
UnMapPoints(w, hs) ==
  IF hs = <<>> THEN w
  ELSE LET h == Head(hs)
           w1 == [w EXCEPT
                    !.index = SetCell(@, h.pix, delete_link(CellList(@, h.pix), h.link)),
                    !.c1 = SetCounter(@, Region(h.pix),
                                      CounterDec(Counter(@, Region(h.pix)))),
                    !.c2 = SetCounter(@, SuperRegion(h.pix),
                                      CounterDec(Counter(@, SuperRegion(h.pix))))]
       IN UnMapPoints(w1, Tail(hs))

\* UnMap that leaves the last handle's entry in the index
BlockUnMap_AllButLast(S, m, i) ==
  LET hs == S.mods[m].blocks[i].rendered_points
  IN [S EXCEPT !.w = UnMapPoints(@, IF hs = <<>> THEN hs ELSE SubSeq(hs, 1, Len(hs) - 1)),
               !.mods[m].blocks[i].rendered_points = <<>>]

\* UnMap that removes the entries and keeps the handles
BlockUnMap_KeepHandles(S, m, i) ==
  [S EXCEPT !.w = UnMapPoints(@, S.mods[m].blocks[i].rendered_points)]

\* StgBlock::UnMap
BlockUnMap(S, m, i) ==
  [S EXCEPT !.w = UnMapPoints(@, S.mods[m].blocks[i].rendered_points),
            !.mods[m].blocks[i].rendered_points = <<>>]

-----------------------------------------------------------------------------
(* Global poses *)

RECURSIVE GetGlobalPose_NoStacking(_, _)
\* GetGlobalPose that leaves the parent's height out
GetGlobalPose_NoStacking(S, m) ==
  LET me == S.mods[m] IN
  IF me.parent # NULL
  THEN LET r == GetGlobalPose_NoStacking(S, me.parent)
           g == pose_sum(r.ret, me.pose)
       IN [S |-> [r.S EXCEPT !.mods[m].global_pose = g,
                             !.mods[m].gpose_dirty = FALSE],
           ret |-> g]
  ELSE [S |-> [S EXCEPT !.mods[m].global_pose = me.pose,
                        !.mods[m].gpose_dirty = FALSE],
        ret |-> me.pose]

RECURSIVE GetGlobalPose(_, _)
\* StgModel::GetGlobalPose: always recomputed, up to the root
GetGlobalPose(S, m) ==
  LET me == S.mods[m] IN
  IF me.parent # NULL
  THEN LET r == GetGlobalPose(S, me.parent)
           sum == pose_sum(r.ret, me.pose)
           g == [sum EXCEPT !.z = @ + r.S.mods[me.parent].geom.size.z]
       IN [S |-> [r.S EXCEPT !.mods[m].global_pose = g,
                             !.mods[m].gpose_dirty = FALSE],
           ret |-> g]
  ELSE [S |-> [S EXCEPT !.mods[m].global_pose = me.pose,
                        !.mods[m].gpose_dirty = FALSE],
        ret |-> me.pose]

\* StgModel::LocalToGlobal( stg_pose_t )
LocalToGlobal(S, m, pose) ==
  LET r == GetGlobalPose(S, m)
  IN [S |-> r.S,
      ret |-> pose_sum(pose_sum(r.ret, r.S.mods[m].geom.pose), pose)]

\* StgBlock::Map
BlockMap(S, m, i) ==
  LET b == S.mods[m].blocks[i]
      n == Len(b.pts)
      \* every vertex goes through the same LocalToGlobal
      g == [p \in 1..n |-> LocalToGlobal(S, m, Pose(b.pts[p].x, b.pts[p].y, b.zmin, 0))]
      pix == [p \in 1..n |-> <<MetersToPixels(g[p].ret.x), MetersToPixels(g[p].ret.y)>>]
      S1 == [g[n].S EXCEPT !.mods[m].blocks[i].global_zmin = g[n].ret.z,
                           !.mods[m].blocks[i].global_zmax = g[n].ret.z + (b.zmax - b.zmin)]
  IN AddBlockPixels(S1, m, i, stg_polygon_3d(pix))

RECURSIVE MapBlocksFrom(_, _, _)
MapBlocksFrom(S, m, i) ==
  IF i > Len(S.mods[m].blocks) THEN S
  ELSE MapBlocksFrom(BlockMap(S, m, i), m, i + 1)

RECURSIVE UnMapBlocksFrom(_, _, _)
UnMapBlocksFrom(S, m, i) ==
  IF i > Len(S.mods[m].blocks) THEN S
  ELSE UnMapBlocksFrom(BlockUnMap(S, m, i), m, i + 1)

\* StgModel::Map
Map(S, m) == MapBlocksFrom(S, m, 1)

\* StgModel::UnMap
UnMap(S, m) == UnMapBlocksFrom(S, m, 1)

RECURSIVE MapWithChildren(_, _)
RECURSIVE MapChildrenFrom(_, _, _)
\* StgModel::MapWithChildren
MapWithChildren(S, m) == MapChildrenFrom(Map(S, m), S.mods[m].children, 1)

MapChildrenFrom(S, kids, k) ==
  IF k > Len(kids) THEN S
  ELSE MapChildrenFrom(MapWithChildren(S, kids[k]), kids, k + 1)

\* UnMapWithChildren that leaves the children mapped
UnMapWithChildren_SelfOnly(S, m) == UnMap(S, m)

RECURSIVE UnMapWithChildren(_, _)
RECURSIVE UnMapChildrenFrom(_, _, _)
\* StgModel::UnMapWithChildren
UnMapWithChildren(S, m) == UnMapChildrenFrom(UnMap(S, m), S.mods[m].children, 1)

UnMapChildrenFrom(S, kids, k) ==
  IF k > Len(kids) THEN S
  ELSE UnMapChildrenFrom(UnMapWithChildren(S, kids[k]), kids, k + 1)

-----------------------------------------------------------------------------
(* Callbacks and hooks: what runs is recorded, in order, in S.log, and    *)
(* what a callback can observe when it runs is recorded in S.seen         *)

\* StgModel::CallCallbacks( address of the changed attribute )
CallCallbacks(S, m, key) ==
  [S EXCEPT !.log = Append(@, <<key, m>>),
            !.seen = Append(@, [key |-> key, m |-> m, me |-> S.mods[m],
                                parent_children |->
                                  IF S.mods[m].parent \in DOMAIN S.mods
                                  THEN S.mods[S.mods[m].parent].children ELSE <<>>,
                                velocity_list |-> S.w.velocity_list,
                                update_list |-> S.w.update_list,
                                sim_time |-> S.w.sim_time])]

\* StgWorld::StartUpdatingModel
StartUpdatingModel(S, m) ==
  IF list_find(S.w.update_list, m) THEN S
  ELSE [S EXCEPT !.w.update_list = list_append(@, m)]

\* StgWorld::StopUpdatingModel
StopUpdatingModel(S, m) ==
  [S EXCEPT !.w.update_list = list_remove(@, m)]

-----------------------------------------------------------------------------
(* Construction *)

\* the outline AddBlockRect( -0.5, -0.5, 1, 1 ) builds
RectPoints(x, y, width, height) ==
  <<Point(x, y), Point(x + width, y), Point(x + width, y + height), Point(x, y + height)>>

BlockSerials(bs) == {bs[i].id[2] : i \in 1..Len(bs)}
FreshSerial(bs) == CHOOSE k \in 1..(Len(bs) + 1) : k \notin BlockSerials(bs)

RECURSIVE NeedRedraw(_, _)
\* StgModel::NeedRedraw
NeedRedraw(S, m) ==
  LET S1 == [S EXCEPT !.mods[m].rebuild_displaylist = TRUE]
  IN IF S.mods[m].parent # NULL THEN NeedRedraw(S1, S.mods[m].parent) ELSE S1

\* StgModel::AddBlock
AddBlock(S, m, pts, zmin, zmax) ==
  LET b == NewBlock(<<m, FreshSerial(S.mods[m].blocks)>>, pts, zmin, zmax)
  IN NeedRedraw([S EXCEPT !.mods[m].blocks = list_prepend(@, b)], m)

\* StgModel::ClearBlocks: every block is destroyed, and unmaps itself first
ClearBlocks(S, m) ==
  NeedRedraw([UnMap(S, m) EXCEPT !.mods[m].blocks = <<>>], m)

\* StgModel::AddBlockRect
AddBlockRect(S, m, x, y, width, height) ==
  AddBlock(S, m, RectPoints(x, y, width, height), 0, 10)

\* the fields the constructor gives a model before it adds the first block
NewModel(parent, hasinit) ==
  [parent |-> parent,
   children |-> <<>>,
   pose |-> ZeroPose,
   global_pose |-> ZeroPose,
   gpose_dirty |-> TRUE,
   trail |-> <<>>,
   disabled |-> FALSE,
   blocks |-> <<>>,
   rebuild_displaylist |-> TRUE,
   subs |-> 0,
   stall |-> FALSE,
   geom |-> [size |-> Size(1, 1, 1), pose |-> ZeroPose],
   obstacle_return |-> TRUE,
   color |-> 0,
   velocity |-> ZeroPose,
   on_velocity_list |-> FALSE,
   last_update |-> 0,
   interval |-> 10000,
   initfunc |-> hasinit,
   flag_list |-> <<>>]

\* StgModel::StgModel
Construct(S, parent, hasinit) ==
  LET id == S.count
      S1 == [S EXCEPT
               !.count = @ + 1,
               !.byid = @ \cup {id},
               !.mods = [i \in (DOMAIN @) \cup {id} |->
                           IF i = id THEN NewModel(parent, hasinit)
                           ELSE IF i = parent
                                THEN [@[i] EXCEPT !.children = list_append(@, id)]
                                ELSE @[i]],
               !.w.children = IF parent = NULL THEN list_append(@, id) ELSE @,
               !.w.models = @ \cup {id}]
  IN AddBlockRect(S1, id, -5, -5, 10, 10)

\* the world and the process-wide tables before any model exists
EmptyState(interval_sim, updates) ==
  [mods |-> [i \in {} |-> 0],
   byid |-> {},
   count |-> 0,
   log |-> <<>>,
   seen |-> <<>>,
   w |-> [children |-> <<>>,
          models |-> {},
          velocity_list |-> <<>>,
          update_list |-> <<>>,
          total_subs |-> 0,
          sim_time |-> 0,
          updates |-> updates,
          interval_sim |-> interval_sim,
          index |-> [p \in {} |-> <<>>],
          c1 |-> [r \in {} |-> 0],
          c2 |-> [r \in {} |-> 0]]]

-----------------------------------------------------------------------------
(* Attribute setters *)

\* SetVelocity without the on_velocity_list test before the prepend
SetVelocity_AlwaysPrepend(S, m, vel) ==
  LET S1 == [S EXCEPT !.mods[m].velocity = vel]
      S2 == IF velocity_is_nonzero(vel)
            THEN [S1 EXCEPT !.w.velocity_list = list_prepend(@, m),
                            !.mods[m].on_velocity_list = TRUE]
            ELSE S1
      S3 == IF S2.mods[m].on_velocity_list /\ ~velocity_is_nonzero(vel)
            THEN [S2 EXCEPT !.w.velocity_list = list_remove(@, m),
                            !.mods[m].on_velocity_list = FALSE]
            ELSE S2
  IN CallCallbacks(S3, m, "velocity")

\* SetVelocity that puts a model that starts to move at the end of the list
SetVelocity_Append(S, m, vel) ==
  LET S1 == [S EXCEPT !.mods[m].velocity = vel]
      S2 == IF ~S1.mods[m].on_velocity_list /\ velocity_is_nonzero(vel)
            THEN [S1 EXCEPT !.w.velocity_list = list_append(@, m),
                            !.mods[m].on_velocity_list = TRUE]
            ELSE S1
      S3 == IF S2.mods[m].on_velocity_list /\ ~velocity_is_nonzero(vel)
            THEN [S2 EXCEPT !.w.velocity_list = list_remove(@, m),
                            !.mods[m].on_velocity_list = FALSE]
            ELSE S2
  IN CallCallbacks(S3, m, "velocity")

\* StgModel::SetVelocity
SetVelocity(S, m, vel) ==
  LET S1 == [S EXCEPT !.mods[m].velocity = vel]
      S2 == IF ~S1.mods[m].on_velocity_list /\ velocity_is_nonzero(vel)
            THEN [S1 EXCEPT !.w.velocity_list = list_prepend(@, m),
                            !.mods[m].on_velocity_list = TRUE]
            ELSE S1
      S3 == IF S2.mods[m].on_velocity_list /\ ~velocity_is_nonzero(vel)
            THEN [S2 EXCEPT !.w.velocity_list = list_remove(@, m),
                            !.mods[m].on_velocity_list = FALSE]
            ELSE S2
  IN CallCallbacks(S3, m, "velocity")

\* StgModel::SetStall
SetStall(S, m, stall) ==
  CallCallbacks([S EXCEPT !.mods[m].stall = stall], m, "stall")

\* StgModel::SetObstacleReturn
SetObstacleReturn(S, m, val) ==
  CallCallbacks([S EXCEPT !.mods[m].obstacle_return = (val # 0)], m, "obstacle_return")

RECURSIVE GPoseDirtyTree(_, _)
RECURSIVE GPoseDirtyChildrenFrom(_, _, _)
\* StgModel::GPoseDirtyTree
GPoseDirtyTree(S, m) ==
  GPoseDirtyChildrenFrom([S EXCEPT !.mods[m].gpose_dirty = TRUE], S.mods[m].children, 1)

GPoseDirtyChildrenFrom(S, kids, k) ==
  IF k > Len(kids) THEN S
  ELSE GPoseDirtyChildrenFrom(GPoseDirtyTree(S, kids[k]), kids, k + 1)

\* SetPose that stores the heading as it is given
SetPose_Raw(S, m, pose) ==
  LET S1 == IF S.mods[m].pose # pose
            THEN LET U == UnMapWithChildren(S, m)
                     P == [U EXCEPT !.mods[m].pose = pose]
                 IN MapWithChildren(GPoseDirtyTree(NeedRedraw(P, m), m), m)
            ELSE S
  IN CallCallbacks(S1, m, "pose")

\* SetPose that does its work whether or not the pose has changed
SetPose_AlwaysRemap(S, m, pose) ==
  LET U == UnMapWithChildren(S, m)
      P == [U EXCEPT !.mods[m].pose = [pose EXCEPT !.a = normalize(@)]]
  IN CallCallbacks(MapWithChildren(GPoseDirtyTree(NeedRedraw(P, m), m), m), m, "pose")

\* StgModel::SetPose
SetPose(S, m, pose) ==
  LET S1 == IF S.mods[m].pose # pose
            THEN LET U == UnMapWithChildren(S, m)
                     P == [U EXCEPT !.mods[m].pose = [pose EXCEPT !.a = normalize(@)]]
                 IN MapWithChildren(GPoseDirtyTree(NeedRedraw(P, m), m), m)
            ELSE S
  IN CallCallbacks(S1, m, "pose")

\* StgModel::AddToPose( dx, dy, dz, da )
AddToPose(S, m, d) ==
  IF d.x # 0 \/ d.y # 0 \/ d.z # 0 \/ d.a # 0
  THEN LET pose == S.mods[m].pose
       IN SetPose(S, m, Pose(pose.x + d.x, pose.y + d.y, pose.z + d.z, pose.a + d.a))
  ELSE S

\* StgModel::GlobalToLocal
GlobalToLocal(S, m, pose) ==
  LET r == GetGlobalPose(S, m)
      org == r.ret
  IN [S |-> r.S,
      ret |-> [pose EXCEPT
                 !.x = (pose.x - org.x) * Cos(org.a) + (pose.y - org.y) * Sin(org.a),
                 !.y = -(pose.x - org.x) * Sin(org.a) + (pose.y - org.y) * Cos(org.a),
                 !.a = pose.a - org.a]]

\* StgModel::SetGlobalPose
SetGlobalPose(S, m, gpose) ==
  IF S.mods[m].parent = NULL
  THEN SetPose(S, m, gpose)
  ELSE LET r == GlobalToLocal(S, S.mods[m].parent, gpose)
       IN SetPose(r.S, m, r.ret)

\* StgModel::SetParent
SetParent(S, m, newparent) ==
  LET old == S.mods[m].parent
      S1 == IF old # NULL
            THEN [S EXCEPT !.mods[old].children = list_remove(@, m)]
            ELSE S
      S2 == IF newparent # NULL
            THEN [S1 EXCEPT !.mods[newparent].children = list_append(@, m)]
            ELSE S1
      S3 == [S2 EXCEPT !.mods[m].parent = newparent]
  IN CallCallbacks(S3, m, "parent")

-----------------------------------------------------------------------------
(* Scaling the body to the model's size *)

AllPoints(bs) == UNION {{bs[i].pts[p] : p \in 1..Len(bs[i].pts)} : i \in 1..Len(bs)}
MinOf(ns) == CHOOSE n \in ns : \A k \in ns : n <= k
MaxOf(ns) == CHOOSE n \in ns : \A k \in ns : n >= k

\* the values of a double that are not numbers of the model: 0/0 and x/0
NaN == 999999
Inf == 888888

\* ((v - min) / scale * size) - size / 2; scale is 0 only when v = min
ScaleCoord(v, min, scale, size) ==
  IF scale = 0 THEN NaN
  ELSE ((v - min) * size) \div scale - size \div 2

\* z * (size / maxz)
ScaleZ(z, size, maxz) ==
  IF maxz # 0 THEN (z * size) \div maxz
  ELSE IF size = 0 \/ z = 0 THEN NaN
  ELSE IF z > 0 THEN Inf ELSE -Inf

\* StgBlock::ScaleList on the blocks of model m; an assert( ! isnan ) that
\* is handed a NaN is recorded in the log
ScaleList(S, m, size) ==
  LET bs == S.mods[m].blocks IN
  IF Len(bs) < 1 THEN S
  ELSE LET U == UnMap(S, m)
           pts == AllPoints(bs)
           minx == MinOf({q.x : q \in pts})
           miny == MinOf({q.y : q \in pts})
           maxx == MaxOf({q.x : q \in pts})
           maxy == MaxOf({q.y : q \in pts})
           maxz == MaxOf({0} \cup {bs[i].zmax : i \in 1..Len(bs)})
           scaled(b) ==
             [b EXCEPT
                !.pts = [p \in 1..Len(b.pts) |->
                           Point(ScaleCoord(b.pts[p].x, minx, maxx - minx, size.x),
                                 ScaleCoord(b.pts[p].y, miny, maxy - miny, size.y))],
                !.zmax = ScaleZ(@, size.z, maxz),
                !.zmin = ScaleZ(@, size.z, maxz)]
           V == [U EXCEPT !.mods[m].blocks = [i \in 1..Len(bs) |-> scaled(U.mods[m].blocks[i])]]
       IN IF maxx = minx \/ maxy = miny
          THEN [V EXCEPT !.log = Append(@, <<"assert", m>>)]
          ELSE V

\* StgModel::SetGeom
SetGeom(S, m, geom) ==
  LET S1 == [S EXCEPT !.mods[m].gpose_dirty = TRUE]
      S2 == [UnMap(S1, m) EXCEPT !.mods[m].geom = geom]
      S3 == NeedRedraw(ScaleList(S2, m, geom.size), m)
  IN CallCallbacks(Map(S3, m), m, "geom")

-----------------------------------------------------------------------------
(* Ray tracing and the collision test *)

\* the block of a link, looked up in its model
BlockOf(S, l) ==
  LET bs == S.mods[l.mod].blocks
  IN bs[CHOOSE i \in 1..Len(bs) : bs[i].id = l.blk]

\* collision_match without the test of obstacle_return
collision_match_AnyModel(S, l, finder) == l.mod # finder

\* collision_match
collision_match(S, l, finder) ==
  l.mod # finder /\ S.mods[l.mod].obstacle_return

\* the call of the block predicate func that a ray is given
Match(func, S, l, finder) ==
  CASE func = "collision_match" -> collision_match(S, l, finder)
    [] OTHER -> TRUE

\* what a ray sees in one pixel: the links of the cell, in list order, that
\* pass the requester test, the Z test and the predicate
CellHits(S, pix, z, func, finder, ztest) ==
  IF Counter(S.w.c2, SuperRegion(pix)) = 0 \/ Counter(S.w.c1, Region(pix)) = 0
  THEN <<>>
  ELSE SelectSeq(CellList(S.w.index, pix),
                 LAMBDA l : /\ l.mod # finder
                            /\ ztest => /\ BlockOf(S, l).global_zmin <= z
                                        /\ z <= BlockOf(S, l).global_zmax
                            /\ Match(func, S, l, finder))

\* a sample whose block is null
NoBlock == [mod |-> NULL, blk |-> <<>>]

\* StgWorld::Raytrace: the sample of the first accepted block along the ray
Raytrace(S, pose, range, func, finder, ztest) ==
  LET n == MetersToPixels(range)
      at(k) == <<MetersToPixels(pose.x) + k * Cos(pose.a),
                 MetersToPixels(pose.y) + k * Sin(pose.a)>>
      hit == [k \in 0..n |-> CellHits(S, at(k), pose.z, func, finder, ztest)]
      ks == {k \in 0..n : hit[k] # <<>>}
      first == Head(hit[MinOf(ks)])
  IN IF ks = {} THEN NoBlock
     ELSE [mod |-> first.mod, blk |-> first.blk]

\* atan2( dy, dx ) of an axis-parallel edge, in quarter turns
Bearing(dx, dy) ==
  CASE dy = 0 /\ dx >= 0 -> 0
    [] dx = 0 /\ dy > 0 -> 1
    [] dy = 0 /\ dx < 0 -> 2
    [] OTHER -> -1

\* the edge ray of the footprint where it stands, the pose delta left out
EdgeRay_NoDelta(b, p, posedelta) ==
  LET pt1 == b.pts[p]
      pt2 == b.pts[(p % Len(b.pts)) + 1]
      dx == pt2.x - pt1.x
      dy == pt2.y - pt1.y
  IN [pose |-> Pose(pt1.x, pt1.y, 0, Bearing(dx, dy)),
      range |-> Abs(dx) + Abs(dy)]

\* the ray TestCollision sends along edge p of block b
EdgeRay(b, p, posedelta) ==
  LET pt1 == b.pts[p]
      pt2 == b.pts[(p % Len(b.pts)) + 1]
      dx == pt2.x - pt1.x
      dy == pt2.y - pt1.y
  IN [pose |-> pose_sum(posedelta, Pose(pt1.x, pt1.y, 0, Bearing(dx, dy))),
      range |-> Abs(dx) + Abs(dy)]

\* StgModel::Raytrace( pose, range, func, arg, sample, ztest )
ModelRaytrace(S, m, pose, range, func, ztest) ==
  LET g == LocalToGlobal(S, m, pose)
  IN [S |-> g.S, ret |-> Raytrace(g.S, g.ret, range, func, m, ztest)]

\* the (block, edge) pairs in the order the two loops visit them
EdgeOrder(bs) ==
  LET RECURSIVE From(_, _)
      From(i, p) ==
        IF i > Len(bs) THEN <<>>
        ELSE IF p > Len(bs[i].pts) THEN From(i + 1, 1)
        ELSE <<<<i, p>>>> \o From(i, p + 1)
  IN From(1, 1)

RECURSIVE TraceEdges_FirstHit(_, _, _, _, _)
\* the loops of TestCollision with hitmod kept once an edge has hit
TraceEdges_FirstHit(S, m, posedelta, edges, hitmod) ==
  IF edges = <<>> THEN [S |-> S, ret |-> hitmod]
  ELSE LET e == Head(edges)
           ray == EdgeRay(S.mods[m].blocks[e[1]], e[2], posedelta)
           r == ModelRaytrace(S, m, ray.pose, ray.range, "collision_match", TRUE)
       IN TraceEdges_FirstHit(r.S, m, posedelta, Tail(edges),
                              IF hitmod # NULL THEN hitmod ELSE r.ret.mod)

RECURSIVE TraceEdges(_, _, _, _, _)
\* the loops of TestCollision: hitmod is overwritten by every edge that hits
TraceEdges(S, m, posedelta, edges, hitmod) ==
  IF edges = <<>> THEN [S |-> S, ret |-> hitmod]
  ELSE LET e == Head(edges)
           ray == EdgeRay(S.mods[m].blocks[e[1]], e[2], posedelta)
           r == ModelRaytrace(S, m, ray.pose, ray.range, "collision_match", TRUE)
       IN TraceEdges(r.S, m, posedelta, Tail(edges),
                     IF r.ret.mod # NULL THEN r.ret.mod ELSE hitmod)

\* TestCollision that returns without mapping the model again
TestCollision_NoRemap(S, m, posedelta) ==
  IF S.mods[m].blocks = <<>> THEN [S |-> S, ret |-> NULL]
  ELSE TraceEdges(UnMap(S, m), m, posedelta, EdgeOrder(S.mods[m].blocks), NULL)

\* StgModel::TestCollision( posedelta, hitx, hity )
TestCollision(S, m, posedelta) ==
  IF S.mods[m].blocks = <<>> THEN [S |-> S, ret |-> NULL]
  ELSE LET r == TraceEdges(UnMap(S, m), m, posedelta, EdgeOrder(S.mods[m].blocks), NULL)
       IN [S |-> Map(r.S, m), ret |-> r.ret]

-----------------------------------------------------------------------------
(* The kinematic update *)

\* the trail checkpoint UpdatePose appends
AddCheckpoint(S, m) ==
  LET me == S.mods[m]
      checkpoint == [pose |-> me.pose, color |-> me.color, time |-> S.w.sim_time]
      kept == IF Len(me.trail) > TrailLength THEN Tail(me.trail) ELSE me.trail
  IN [S EXCEPT !.mods[m].trail = Append(kept, checkpoint)]

\* UpdatePose that raises the stall flag on a hit and commits the move anyway
UpdatePose_MoveAnyway(S, m) ==
  IF S.mods[m].disabled THEN S
  ELSE LET S1 == IF S.w.updates % TrailPeriod = 0 THEN AddCheckpoint(S, m) ELSE S
           v == S1.mods[m].velocity
           p == Pose((v.x * S1.w.interval_sim) \div UsecPerSec,
                     (v.y * S1.w.interval_sim) \div UsecPerSec,
                     0,
                     (v.a * S1.w.interval_sim) \div UsecPerSec)
           t == TestCollision(S1, m, p)
           S2 == SetStall(t.S, m, t.ret # NULL)
       IN SetPose(S2, m, pose_sum(S2.mods[m].pose, p))

\* StgModel::UpdatePose
UpdatePose(S, m) ==
  IF S.mods[m].disabled THEN S
  ELSE LET S1 == IF S.w.updates % TrailPeriod = 0 THEN AddCheckpoint(S, m) ELSE S
           v == S1.mods[m].velocity
           p == Pose((v.x * S1.w.interval_sim) \div UsecPerSec,
                     (v.y * S1.w.interval_sim) \div UsecPerSec,
                     0,
                     (v.a * S1.w.interval_sim) \div UsecPerSec)
           t == TestCollision(S1, m, p)
       IN IF t.ret # NULL
          THEN SetStall(t.S, m, TRUE)
          ELSE LET S2 == SetStall(t.S, m, FALSE)
               IN SetPose(S2, m, pose_sum(S2.mods[m].pose, p))

-----------------------------------------------------------------------------
(* Subscriptions and updates *)

\* StgModel::Startup
Startup(S, m) ==
  LET S1 == IF S.mods[m].initfunc THEN [S EXCEPT !.log = Append(@, <<"initfunc", m>>)] ELSE S
  IN CallCallbacks(StartUpdatingModel(S1, m), m, "startup_hook")

\* StgModel::Shutdown
Shutdown(S, m) == CallCallbacks(StopUpdatingModel(S, m), m, "shutdown_hook")

\* Subscribe that starts the model up on every call
Subscribe_AlwaysStartup(S, m) ==
  Startup([S EXCEPT !.mods[m].subs = @ + 1, !.w.total_subs = @ + 1], m)

\* StgModel::Subscribe
Subscribe(S, m) ==
  LET S1 == [S EXCEPT !.mods[m].subs = @ + 1, !.w.total_subs = @ + 1]
  IN IF S1.mods[m].subs = 1 THEN Startup(S1, m) ELSE S1

\* Unsubscribe that shuts down only once the count has gone negative
Unsubscribe_LateShutdown(S, m) ==
  LET S1 == [S EXCEPT !.mods[m].subs = @ - 1, !.w.total_subs = @ - 1]
  IN IF S1.mods[m].subs < 0 THEN Shutdown(S1, m) ELSE S1

\* StgModel::Unsubscribe
Unsubscribe(S, m) ==
  LET S1 == [S EXCEPT !.mods[m].subs = @ - 1, !.w.total_subs = @ - 1]
  IN IF S1.mods[m].subs < 1 THEN Shutdown(S1, m) ELSE S1

\* Update that runs the callbacks and leaves last_update alone
Update_NoStamp(S, m) == CallCallbacks(S, m, "update_hook")

\* StgModel::Update
Update(S, m) ==
  [CallCallbacks(S, m, "update_hook") EXCEPT !.mods[m].last_update = S.w.sim_time]

\* StgModel::UpdateIfDue
UpdateIfDue(S, m) ==
  IF S.w.sim_time >= S.mods[m].last_update + S.mods[m].interval
  THEN Update(S, m) ELSE S

-----------------------------------------------------------------------------
(* Actions: one call of a public method on the current state *)

\* the current program state, with the record of the last call cleared
Cur ==
  [mods |-> mods, byid |-> modelsbyid, count |-> count, log |-> <<>>, seen |-> <<>>,
   w |-> world]

Commit(S, o) ==
  /\ mods' = S.mods
  /\ modelsbyid' = S.byid
  /\ count' = S.count
  /\ world' = S.w
  /\ log' = S.log
  /\ op' = o

Call(name, m, arg, ret) == [name |-> name, m |-> m, arg |-> arg, ret |-> ret]

Ids == DOMAIN mods

\* the state after the program has run the calls that lead to S
Started(S) ==
  /\ mods = S.mods
  /\ modelsbyid = S.byid
  /\ count = S.count
  /\ world = S.w
  /\ log = <<>>
  /\ op = Call("construct", NULL, NULL, NULL)

-----------------------------------------------------------------------------
(* Velocities: three models, any sequence of SetVelocity calls *)

\* three models: 0 and 1 at the top level, 2 a child of 0; 1 has an initfunc
ThreeModels ==
  Construct(Construct(Construct(EmptyState(UsecPerSec, 1), NULL, FALSE), NULL, TRUE), 0, FALSE)

\* the zero velocity and velocities with a single or several nonzero components
Velocities ==
  {Pose(0, 0, 0, 0), Pose(5, 0, 0, 0), Pose(0, -5, 0, 0), Pose(0, 0, 5, 0),
   Pose(0, 0, 0, 1), Pose(5, 5, 0, -1)}

DoSetVelocity(m, v) ==
  Commit(SetVelocity(Cur, m, v), Call("SetVelocity", m, v, NULL))

InitVel == Started(ThreeModels)
NextVel == \E m \in Ids, v \in Velocities : DoSetVelocity(m, v)
SpecVel == InitVel /\ [][NextVel]_vars

\* C1: a model is on the world's velocity list iff some component of its
\* velocity is nonzero, and it is on the list at most once
C1_VelocityList ==
  \A m \in Ids :
    /\ list_find(world.velocity_list, m) <=> velocity_is_nonzero(mods[m].velocity)
    /\ Occurrences(world.velocity_list, m) <= 1

\* a model with only a z velocity is listed next to a model brought back to rest
C1_Witness ==
  /\ op.name = "SetVelocity"
  /\ \E m \in Ids : mods[m].velocity = Pose(0, 0, 5, 0) /\ list_find(world.velocity_list, m)
  /\ \E m \in Ids : op.m = m /\ mods[m].velocity = ZeroPose
                    /\ ~list_find(world.velocity_list, m)
  /\ Len(world.velocity_list) = 2

-----------------------------------------------------------------------------
(* Subscriptions: three models, Subscribe and Unsubscribe in any order *)

MaxSubs == 3    \* Subscribe is not called on a model that holds MaxSubs subscriptions
MinSubs == 2    \* Unsubscribe is not called on a model whose count is -MinSubs

DoSubscribe(m) ==
  /\ mods[m].subs < MaxSubs
  /\ Commit(Subscribe(Cur, m), Call("Subscribe", m, NULL, NULL))

DoUnsubscribe(m) ==
  /\ mods[m].subs > -MinSubs
  /\ Commit(Unsubscribe(Cur, m), Call("Unsubscribe", m, NULL, NULL))

InitSub == Started(ThreeModels)
NextSub ==
  \/ \E m \in Ids : DoSubscribe(m)
  \/ \E m \in Ids : DoUnsubscribe(m)
SpecSub == InitSub /\ [][NextSub]_vars

\* C2: a model is on the world's update list iff its subscription count
\* is at least 1
C2_UpdateList ==
  \A m \in Ids : list_find(world.update_list, m) <=> mods[m].subs >= 1

\* a model that was subscribed twice and unsubscribed once is still listed,
\* next to a model that has been unsubscribed down to zero and is not
C2_Witness ==
  /\ op.name = "Unsubscribe"
  /\ \E m \in Ids : mods[m].subs = 1 /\ op.m = m /\ list_find(world.update_list, m)
  /\ \E m \in Ids : mods[m].subs = 0 /\ ~list_find(world.update_list, m)

\* how often hook or callback e of model m ran in the last call
Ran(lg, e, m) == Cardinality({i \in 1..Len(lg) : lg[i] = <<e, m>>})

\* C3: subscriptions are counted.  A Subscribe runs the startup path (the
\* initfunc when there is one, the registration for updates, the startup
\* callbacks) exactly once when it takes the count from 0 to 1 and not at all
\* otherwise; an Unsubscribe that releases a held subscription runs the
\* shutdown path (deregistration, shutdown callbacks) exactly once when it
\* takes the count from 1 to 0 and not at all before that
C3_RefCounted ==
  [][\A m \in Ids :
       /\ (op'.name = "Subscribe" /\ op'.m = m) =>
            /\ mods'[m].subs = mods[m].subs + 1
            /\ Ran(log', "shutdown_hook", m) = 0
            /\ IF mods[m].subs = 0
               THEN /\ Ran(log', "startup_hook", m) = 1
                    /\ Ran(log', "initfunc", m) = (IF mods[m].initfunc THEN 1 ELSE 0)
                    /\ ~list_find(world.update_list, m)
                    /\ list_find(world'.update_list, m)
               ELSE /\ log' = <<>>
                    /\ world'.update_list = world.update_list
       /\ (op'.name = "Unsubscribe" /\ op'.m = m /\ mods[m].subs >= 1) =>
            /\ mods'[m].subs = mods[m].subs - 1
            /\ Ran(log', "startup_hook", m) = 0
            /\ Ran(log', "initfunc", m) = 0
            /\ IF mods[m].subs = 1
               THEN /\ Ran(log', "shutdown_hook", m) = 1
                    /\ list_find(world.update_list, m)
                    /\ ~list_find(world'.update_list, m)
               ELSE /\ log' = <<>>
                    /\ world'.update_list = world.update_list
  ]_vars

\* an Unsubscribe has just taken a model with an initfunc from one
\* subscription to none and shut it down, leaving no subscription anywhere
C3_Witness ==
  /\ op.name = "Unsubscribe"
  /\ mods[op.m].initfunc
  /\ mods[op.m].subs = 0
  /\ log = <<<<"shutdown_hook", op.m>>>>
  /\ world.total_subs = 0

-----------------------------------------------------------------------------
(* Motion: scenario S2.  Model 0 (A) stands at the origin and model 1 (B)  *)
(* at x = 2 m, each the 1 m x 1 m x 1 m square the constructor builds, with *)
(* a simulation step of one second.                                        *)

ScenarioS2 ==
  LET S0 == Construct(Construct(EmptyState(UsecPerSec, 1), NULL, FALSE), NULL, FALSE)
      S1 == SetPose(S0, 0, Pose(0, 0, 0, 0))
  IN SetPose(S1, 1, Pose(20, 0, 0, 0))

MaxX == 25    \* UpdatePose is not called when it would leave 0 <= x <= MaxX
MaxY == 5    \* or 0 <= y <= MaxY

\* at rest, 0.5 m/s and 2 m/s ahead, 0.5 m/s ahead while turning a quarter
\* turn per second
MoveVelocities ==
  {Pose(0, 0, 0, 0), Pose(5, 0, 0, 0), Pose(20, 0, 0, 0), Pose(5, 0, 0, 1)}

\* the pose delta UpdatePose computes from the velocity
Delta(m) ==
  LET v == mods[m].velocity
  IN Pose((v.x * world.interval_sim) \div UsecPerSec,
          (v.y * world.interval_sim) \div UsecPerSec,
          0,
          (v.a * world.interval_sim) \div UsecPerSec)

InReach(m, maxx, maxy) ==
  LET q == pose_sum(mods[m].pose, Delta(m))
  IN q.x \in 0..maxx /\ q.y \in 0..maxy

DoMoveVelocity(m, v) ==
  Commit(SetVelocity(Cur, m, v), Call("SetVelocity", m, NULL, NULL))

DoSetObstacleReturn(m, val) ==
  Commit(SetObstacleReturn(Cur, m, val), Call("SetObstacleReturn", m, NULL, NULL))

DoUpdatePose(m) ==
  /\ InReach(m, MaxX, MaxY)
  /\ Commit(UpdatePose(Cur, m), Call("UpdatePose", m, NULL, NULL))

InitMove == Started(ScenarioS2)
NextMove ==
  \/ \E v \in MoveVelocities : DoMoveVelocity(0, v)
  \/ \E m \in Ids, val \in {0, 1} : DoSetObstacleReturn(m, val)
  \/ DoUpdatePose(0)
SpecMove == InitMove /\ [][NextMove]_vars

\* C4: UpdatePose on a model that is not disabled either stalls or moves.
\* When TestCollision with delta = velocity * interval_sim reports a hit,
\* stall becomes true and the local pose stays; otherwise stall becomes false
\* and the local pose becomes pose (+) delta, delta taken in the model's own
\* frame, with the heading brought back into (-pi, pi]
C4_StallOrMove ==
  [][\A m \in Ids :
       (op'.name = "UpdatePose" /\ op'.m = m /\ ~mods[m].disabled) =>
         IF TestCollision(Cur, m, Delta(m)).ret # NULL
         THEN /\ mods'[m].stall
              /\ mods'[m].pose = mods[m].pose
         ELSE /\ ~mods'[m].stall
              /\ mods'[m].pose.x = mods[m].pose.x + Delta(m).x * Cos(mods[m].pose.a)
                                                  - Delta(m).y * Sin(mods[m].pose.a)
              /\ mods'[m].pose.y = mods[m].pose.y + Delta(m).x * Sin(mods[m].pose.a)
                                                  + Delta(m).y * Cos(mods[m].pose.a)
              /\ mods'[m].pose.z = mods[m].pose.z
              /\ mods'[m].pose.a = normalize(mods[m].pose.a + Delta(m).a)
  ]_vars

\* the mover has advanced along +y after a quarter turn and has then been
\* stalled by an update
C4_Witness ==
  /\ op.name = "UpdatePose"
  /\ mods[0].stall
  /\ mods[0].pose.y = 5
  /\ mods[0].pose.a = 2
  /\ velocity_is_nonzero(mods[0].velocity)

\* C6: a moving model that hits an obstacle during its pose update has its
\* velocity set to zero and is off the world's velocity list
C6_HitZeroesVelocity ==
  \A m \in Ids :
    (op.name = "UpdatePose" /\ op.m = m /\ mods[m].stall) =>
      /\ mods[m].velocity = ZeroPose
      /\ ~list_find(world.velocity_list, m)

\* C7: a collision needs obstacle_return on both sides: an update stalls the
\* mover only if the mover has obstacle_return set and so has another model
C7_BothObstacles ==
  \A m \in Ids :
    (op.name = "UpdatePose" /\ op.m = m /\ mods[m].stall) =>
      /\ mods[m].obstacle_return
      /\ \E n \in Ids \ {m} : mods[n].obstacle_return

-----------------------------------------------------------------------------
(* Scenario S2 alone: model 0 is driven ahead at 0.5, 2 or 10 m/s, or     *)
(* sideways at 0.5 m/s                                                     *)

MaxS2X == 110    \* UpdatePose is not called when it would leave 0 <= x <= MaxS2X
MaxS2Y == 10     \* or 0 <= y <= MaxS2Y

S2Velocities ==
  {Pose(0, 0, 0, 0), Pose(5, 0, 0, 0), Pose(20, 0, 0, 0), Pose(100, 0, 0, 0),
   Pose(0, 5, 0, 0), Pose(0, -5, 0, 0)}

DoS2Velocity(v) ==
  Commit(SetVelocity(Cur, 0, v), Call("SetVelocity", 0, NULL, NULL))

DoS2UpdatePose ==
  /\ InReach(0, MaxS2X, MaxS2Y)
  /\ Commit(UpdatePose(Cur, 0), Call("UpdatePose", 0, NULL, NULL))

InitS2 == Started(ScenarioS2)
NextS2 ==
  \/ \E v \in S2Velocities : DoS2Velocity(v)
  \/ DoS2UpdatePose
SpecS2 == InitS2 /\ [][NextS2]_vars

\* both models stand where scenario S2 puts them
AtS2Start ==
  /\ mods[0].pose = Pose(0, 0, 0, 0)
  /\ mods[1].pose = Pose(20, 0, 0, 0)
  /\ mods[0].obstacle_return /\ mods[1].obstacle_return
  /\ world.interval_sim = UsecPerSec

\* C5 as stated: from the S2 positions a tick at 10 m/s leaves A stalled at
\* x = 0, and a tick at 0.5 m/s leaves A at x = 0.5 m, not stalled
C5_AsStated ==
  [][(AtS2Start /\ op'.name = "UpdatePose") =>
       /\ mods[0].velocity = Pose(100, 0, 0, 0) =>
            mods'[0].stall /\ mods'[0].pose.x = 0
       /\ mods[0].velocity = Pose(5, 0, 0, 0) =>
            ~mods'[0].stall /\ mods'[0].pose.x = 5
  ]_vars

\* C5 amended: from the S2 positions a tick at 10 m/s carries A past B to
\* x = 10 m, not stalled (only the footprint at the destination is tested); a
\* tick at 2 m/s, whose destination is B's footprint, leaves A stalled at
\* x = 0; a tick at 0.5 m/s leaves A at x = 0.5 m, not stalled
C5_DestinationTested ==
  [][(AtS2Start /\ op'.name = "UpdatePose") =>
       /\ mods[0].velocity = Pose(100, 0, 0, 0) =>
            ~mods'[0].stall /\ mods'[0].pose = Pose(100, 0, 0, 0)
       /\ mods[0].velocity = Pose(20, 0, 0, 0) =>
            mods'[0].stall /\ mods'[0].pose = Pose(0, 0, 0, 0)
       /\ mods[0].velocity = Pose(5, 0, 0, 0) =>
            ~mods'[0].stall /\ mods'[0].pose = Pose(5, 0, 0, 0)
  ]_vars

\* A, stalled by a tick at 2 m/s, has been slowed to 0.5 m/s and has moved
C5_Witness ==
  /\ op.name = "UpdatePose"
  /\ mods[0].pose = Pose(5, 0, 0, 0)
  /\ mods[0].velocity = Pose(5, 0, 0, 0)
  /\ ~mods[0].stall
  /\ mods[1].pose = Pose(20, 0, 0, 0)

-----------------------------------------------------------------------------
(* The tree: three models, posed, resized, re-parented and queried *)

TreePoses == {Pose(10, 0, 0, 1), Pose(10, 0, 0, 0)}

TreeGeoms == {[size |-> Size(10, 10, 2), pose |-> ZeroPose]}

RECURSIVE IsBelow(_, _, _)
\* t is m or is reached from m through the child lists of ms
IsBelow(ms, m, t) ==
  m = t \/ \E k \in 1..Len(ms[m].children) : IsBelow(ms, ms[m].children[k], t)

DoSetPose(m, p) ==
  Commit(SetPose(Cur, m, p), Call("SetPose", m, NULL, NULL))

DoSetGeom(m, g) ==
  Commit(SetGeom(Cur, m, g), Call("SetGeom", m, NULL, NULL))

\* the new parent is not taken from the model's own subtree
DoSetParent(m, np) ==
  /\ np = NULL \/ ~IsBelow(mods, m, np)
  /\ Commit(SetParent(Cur, m, np), Call("SetParent", m, NULL, NULL))

DoGetGlobalPose(m) ==
  LET r == GetGlobalPose(Cur, m)
  IN Commit(r.S, Call("GetGlobalPose", m, NULL, r.ret))

InitTree == Started(ThreeModels)
NextTree ==
  \/ \E m \in {0, 2}, p \in TreePoses : DoSetPose(m, p)
  \/ \E g \in TreeGeoms : DoSetGeom(0, g)
  \/ \E np \in {NULL, 0} : DoSetParent(2, np)
  \/ \E m \in {0, 2} : DoGetGlobalPose(m)
SpecTree == InitTree /\ [][NextTree]_vars

RECURSIVE ComposedPose(_)
\* the poses of m's ancestors and of m composed from the root down, raised by
\* the height of every ancestor
ComposedPose(m) ==
  IF mods[m].parent = NULL THEN mods[m].pose
  ELSE LET up == ComposedPose(mods[m].parent)
           l == mods[m].pose
       IN [x |-> up.x + l.x * Cos(up.a) - l.y * Sin(up.a),
           y |-> up.y + l.x * Sin(up.a) + l.y * Cos(up.a),
           z |-> up.z + l.z + mods[mods[m].parent].geom.size.z,
           a |-> up.a + l.a]

\* C8: a model whose gpose_dirty flag is false has a cached global_pose equal
\* to the composition of its ancestors' poses with its own, z raised by the
\* size.z of each ancestor
C8_CleanCacheIsRight ==
  \A m \in Ids : ~mods[m].gpose_dirty => mods[m].global_pose = ComposedPose(m)

\* C9: GetGlobalPose returns the local pose of a model without a parent and,
\* for a model with a parent, the parent's global pose composed with the local
\* pose, with the parent's size.z added to z; the parent at (1, 0, 0, pi/2)
\* with size.z 0.2 and the child at (1, 0, 0, 0) give (1, 1, 0.2, pi/2)
C9_GlobalPose ==
  op.name = "GetGlobalPose" =>
    /\ op.ret = ComposedPose(op.m)
    /\ mods[op.m].parent = NULL => op.ret = mods[op.m].pose
    /\ ( /\ mods[op.m].parent # NULL
         /\ mods[mods[op.m].parent].parent = NULL
         /\ mods[mods[op.m].parent].pose = Pose(10, 0, 0, 1)
         /\ mods[mods[op.m].parent].geom.size.z = 2
         /\ mods[op.m].pose = Pose(10, 0, 0, 0) )
       => op.ret = Pose(10, 10, 2, 1)

\* scenario S1: the child's global pose has just been asked for
C9_Witness ==
  /\ op.name = "GetGlobalPose"
  /\ op.m = 2
  /\ mods[2].parent = 0
  /\ mods[0].pose = Pose(10, 0, 0, 1)
  /\ mods[0].geom.size.z = 2
  /\ mods[2].pose = Pose(10, 0, 0, 0)
  /\ op.ret = Pose(10, 10, 2, 1)

\* the links of the index lying in the pixels ps, as (pixel, position) pairs
LinksIn(ps) ==
  UNION {{<<pix, j>> : j \in 1..Len(CellList(world.index, pix))} : pix \in ps}

\* the handles the blocks hold, as (model, block, position) triples
Handles ==
  UNION {UNION {{<<m, i, j>> : j \in 1..Len(mods[m].blocks[i].rendered_points)}
                : i \in 1..Len(mods[m].blocks)} : m \in Ids}

HandleOf(h) == mods[h[1]].blocks[h[2]].rendered_points[h[3]]
HandleBlock(h) == mods[h[1]].blocks[h[2]].id

\* handle h is the record of the link at position e[2] of pixel e[1]
Records(h, e) ==
  LET l == world.index[e[1]][e[2]]
  IN /\ HandleOf(h).pix = e[1]
     /\ HandleOf(h).link = <<l.blk, l.k>>
     /\ HandleBlock(h) = l.blk
     /\ h[1] = l.mod

\* C10: the index and the handles agree.  Every entry of the index is recorded
\* by exactly one handle, a handle of the block the entry names; every handle
\* records exactly one entry; no cell of the index is left empty; and every
\* region and superregion counter is the number of entries inside it
C10_IndexMatchesHandles ==
  LET pixels == DOMAIN world.index
      entries == LinksIn(pixels)
  IN /\ \A e \in entries : Cardinality({h \in Handles : Records(h, e)}) = 1
     /\ \A h \in Handles : Cardinality({e \in entries : Records(h, e)}) = 1
     /\ \A pix \in pixels : world.index[pix] # <<>>
     /\ \A r \in (DOMAIN world.c1) \cup {Region(pix) : pix \in pixels} :
          Counter(world.c1, r) = Cardinality(LinksIn({pix \in pixels : Region(pix) = r}))
     /\ \A r \in (DOMAIN world.c2) \cup {SuperRegion(pix) : pix \in pixels} :
          Counter(world.c2, r) = Cardinality(LinksIn({pix \in pixels : SuperRegion(pix) = r}))

\* a parent and its child are both rendered, at different places, and the
\* parent has just been moved, which took both out of the index and back in
C10_Witness ==
  /\ op.name = "SetPose"
  /\ op.m = 0
  /\ mods[2].parent = 0
  /\ mods[0].blocks[1].rendered_points # <<>>
  /\ mods[2].blocks[1].rendered_points # <<>>
  /\ mods[2].pose # ZeroPose
  /\ mods[0].geom.size.z = 2

-----------------------------------------------------------------------------
(* Blocks alone: the first block of each of three models is mapped and     *)
(* unmapped directly, and the child is moved                               *)

MaxHandles == 25    \* Map is not called on a block that holds MaxHandles handles

DoBlockMap(m) ==
  /\ Len(mods[m].blocks[1].rendered_points) < MaxHandles
  /\ Commit(BlockMap(Cur, m, 1), Call("BlockMap", m, NULL, NULL))

DoBlockUnMap(m) ==
  Commit(BlockUnMap(Cur, m, 1), Call("BlockUnMap", m, NULL, NULL))

InitBlock == Started(ThreeModels)
NextBlock ==
  \/ \E m \in Ids : DoBlockMap(m)
  \/ \E m \in Ids : DoBlockUnMap(m)
  \/ \E p \in TreePoses : DoSetPose(2, p)
SpecBlock == InitBlock /\ [][NextBlock]_vars

\* the program state after the step
Nxt ==
  [mods |-> mods', byid |-> modelsbyid', count |-> count', log |-> <<>>, seen |-> <<>>,
   w |-> world']

\* the (pixel, block) entries of an index, with how often each occurs
Entries(index) ==
  UNION {{<<pix, index[pix][j].blk,
            Cardinality({k \in 1..Len(index[pix]) : index[pix][k].blk = index[pix][j].blk})>>
           : j \in 1..Len(index[pix])} : pix \in DOMAIN index}

\* the number of entries of block b of an index that lie in the pixels ps
EntriesOf(index, b, ps) ==
  Cardinality(UNION {{<<pix, j>> : j \in {k \in 1..Len(index[pix]) : index[pix][k].blk = b}}
                     : pix \in ps \cap DOMAIN index})

\* two worlds hold the same index and the same counters
SameIndex(w1, w2) ==
  /\ \A pix \in (DOMAIN w1.index) \cup (DOMAIN w2.index) :
       CellList(w1.index, pix) = CellList(w2.index, pix)
  /\ \A r \in (DOMAIN w1.c1) \cup (DOMAIN w2.c1) : Counter(w1.c1, r) = Counter(w2.c1, r)
  /\ \A r \in (DOMAIN w1.c2) \cup (DOMAIN w2.c2) : Counter(w1.c2, r) = Counter(w2.c2, r)

\* C11: block Map and UnMap are inverses and UnMap is idempotent.  After an
\* UnMap no entry of the index names the block, every region and superregion
\* counter has gone down by the number of entries the block had inside it,
\* and a second UnMap changes nothing; the UnMap of a block just mapped gives
\* back the index and the counters from before the Map, and mapping it again
\* gives the entries of the first Map
C11_MapUnMapInverse ==
  [][\A m \in Ids :
       LET b == mods[m].blocks[1].id
           pixels == DOMAIN world.index
       IN /\ (op'.name = "BlockUnMap" /\ op'.m = m) =>
               /\ EntriesOf(world'.index, b, DOMAIN world'.index) = 0
               /\ mods'[m].blocks[1].rendered_points = <<>>
               /\ \A r \in {Region(pix) : pix \in pixels} :
                    Counter(world'.c1, r) = Counter(world.c1, r)
                      - EntriesOf(world.index, b, {pix \in pixels : Region(pix) = r})
               /\ \A r \in {SuperRegion(pix) : pix \in pixels} :
                    Counter(world'.c2, r) = Counter(world.c2, r)
                      - EntriesOf(world.index, b, {pix \in pixels : SuperRegion(pix) = r})
               /\ BlockUnMap(Nxt, m, 1) = Nxt
          /\ (op'.name = "BlockMap" /\ op'.m = m
                /\ mods[m].blocks[1].rendered_points = <<>>) =>
               /\ EntriesOf(world'.index, b, DOMAIN world'.index) > 0
               /\ \A undone \in {BlockUnMap(Nxt, m, 1)} :
                    /\ SameIndex(undone.w, world)
                    /\ Entries(BlockMap(undone, m, 1).w.index) = Entries(world'.index)
  ]_vars

\* the moved child's block has just been unmapped from pixels that the
\* parent's block still occupies
C11_Witness ==
  /\ op.name = "BlockUnMap"
  /\ op.m = 2
  /\ mods[2].pose = Pose(10, 0, 0, 0)
  /\ mods[2].blocks[1].rendered_points = <<>>
  /\ mods[0].blocks[1].rendered_points # <<>>
  /\ mods[1].blocks[1].rendered_points # <<>>

-----------------------------------------------------------------------------
(* Kinship queries *)

\* what a member call through a null pointer can do: read an unmapped page
\* and die, or go on with either answer
NullCall == {"crash", "true", "false"}

RECURSIVE IsAntecedent(_, _, _)
\* StgModel::IsAntecedent: the set of outcomes.  The parent is called without
\* a test for null, so the walk leaves the tree at the root
IsAntecedent(S, m, testmod) ==
  IF m = NULL THEN NullCall
  ELSE IF m = testmod THEN {"true"}
  ELSE IsAntecedent(S, S.mods[m].parent, testmod)

RECURSIVE IsDescendent_FirstChild(_, _, _)
\* IsDescendent that looks below the first child only
IsDescendent_FirstChild(S, m, testmod) ==
  \/ m = testmod
  \/ /\ S.mods[m].children # <<>>
     /\ IsDescendent_FirstChild(S, S.mods[m].children[1], testmod)

RECURSIVE IsDescendent(_, _, _)
\* StgModel::IsDescendent
IsDescendent(S, m, testmod) ==
  \/ m = testmod
  \/ \E k \in 1..Len(S.mods[m].children) :
       IsDescendent(S, S.mods[m].children[k], testmod)

RECURSIVE TopLevel(_, _)
\* the loop of IsRelated: the top-level model above m
TopLevel(S, m) ==
  IF S.mods[m].parent # NULL THEN TopLevel(S, S.mods[m].parent) ELSE m

\* StgModel::IsRelated
IsRelated(S, m, mod2) ==
  IF m = mod2 THEN TRUE ELSE IsDescendent(S, TopLevel(S, m), mod2)

-----------------------------------------------------------------------------
(* Re-parenting without restraint: models are constructed under any model  *)
(* and given any model, themselves included, as their parent               *)

MaxModels == 3    \* no model is constructed once MaxModels models exist

\* two models: 0 at the top level and 1 its child
TwoModels == Construct(Construct(EmptyState(UsecPerSec, 1), NULL, FALSE), 0, FALSE)

RECURSIVE UpFrom(_, _)
\* the models met on at most n steps up the parent pointers from m
UpFrom(m, n) ==
  IF n = 0 \/ mods[m].parent = NULL THEN {}
  ELSE {mods[m].parent} \cup UpFrom(mods[m].parent, n - 1)

ProperAncestors(m) == UpFrom(m, Cardinality(Ids))

\* the walk up from m ends at a top-level model
Rooted(m) == \E r \in {m} \cup ProperAncestors(m) : mods[r].parent = NULL

\* the constructor's NeedRedraw climbs to the top-level model, and returns
\* only if there is one
DoConstruct(parent) ==
  /\ count < MaxModels
  /\ IF parent = NULL THEN TRUE ELSE Rooted(parent)
  /\ Commit(Construct(Cur, parent, FALSE), Call("construct", count, NULL, NULL))

DoSetAnyParent(m, np) ==
  Commit(SetParent(Cur, m, np), Call("SetParent", m, np, NULL))

InitParent == Started(TwoModels)
NextParent ==
  \/ \E parent \in Ids \cup {NULL} : DoConstruct(parent)
  \/ \E m \in Ids, np \in Ids \cup {NULL} : DoSetAnyParent(m, np)
SpecParent == InitParent /\ [][NextParent]_vars

\* C12: the parent relation is acyclic: no model is its own proper ancestor,
\* and a SetParent whose new parent is the model itself or one of its
\* descendants does not go through
C12_Acyclic ==
  \A m \in Ids : m \notin ProperAncestors(m)

-----------------------------------------------------------------------------
(* Kinship in a tree: models are constructed and re-parented, never below  *)
(* themselves, and asked about each other                                  *)

DoTreeSetParent(m, np) ==
  /\ np = NULL \/ ~IsBelow(mods, m, np)
  /\ Commit(SetParent(Cur, m, np), Call("SetParent", m, np, NULL))

DoIsAntecedent(m, t) ==
  \E r \in IsAntecedent(Cur, m, t) : Commit(Cur, Call("IsAntecedent", m, t, r))

DoIsDescendent(m, t) ==
  Commit(Cur, Call("IsDescendent", m, t, IsDescendent(Cur, m, t)))

DoIsRelated(m, t) ==
  Commit(Cur, Call("IsRelated", m, t, IsRelated(Cur, m, t)))

InitKin == Started(TwoModels)
NextKin ==
  \/ \E parent \in Ids \cup {NULL} : DoConstruct(parent)
  \/ \E m \in Ids, np \in Ids \cup {NULL} : DoTreeSetParent(m, np)
  \/ \E m \in Ids, t \in Ids : DoIsAntecedent(m, t)
  \/ \E m \in Ids, t \in Ids : DoIsDescendent(m, t)
  \/ \E m \in Ids, t \in Ids : DoIsRelated(m, t)
SpecKin == InitKin /\ [][NextKin]_vars

\* the models of the subtree of m, m included, by the parent pointers
SubtreeOf(m) == {t \in Ids : t = m \/ m \in ProperAncestors(t)}

\* the top-level ancestor of m, by the parent pointers
RootOf(m) == CHOOSE r \in {m} \cup ProperAncestors(m) : mods[r].parent = NULL

\* C13: m.IsAntecedent(t) terminates and returns true if t is m or an
\* ancestor of m, and false otherwise
C13_IsAntecedent ==
  op.name = "IsAntecedent" =>
    op.ret = (IF op.arg = op.m \/ op.arg \in ProperAncestors(op.m)
              THEN "true" ELSE "false")

\* C14: m.IsDescendent(t) is true iff t is m or lies in the subtree below m;
\* m.IsRelated(t) is true iff m and t have the same top-level ancestor; so
\* IsRelated is symmetric and holds whenever either model descends from the
\* other
C14_DescendentRelated ==
  /\ \A m \in Ids, t \in Ids :
       /\ IsDescendent(Cur, m, t) <=> t \in SubtreeOf(m)
       /\ IsRelated(Cur, m, t) <=> RootOf(m) = RootOf(t)
       /\ IsRelated(Cur, m, t) <=> IsRelated(Cur, t, m)
       /\ (IsDescendent(Cur, m, t) \/ IsDescendent(Cur, t, m)) => IsRelated(Cur, m, t)
  /\ op.name = "IsDescendent" => (op.ret <=> op.arg \in SubtreeOf(op.m))
  /\ op.name = "IsRelated" => (op.ret <=> RootOf(op.m) = RootOf(op.arg))

\* a model has been found related to its sibling, which is neither above
\* nor below it
C14_Witness ==
  /\ op.name = "IsRelated"
  /\ op.ret
  /\ op.m # op.arg
  /\ ~IsDescendent(Cur, op.m, op.arg)
  /\ ~IsDescendent(Cur, op.arg, op.m)
  /\ mods[op.m].parent # NULL
  /\ mods[op.arg].parent = mods[op.m].parent

-----------------------------------------------------------------------------
(* The world's tick *)

\* the one element of a singleton set: each state below is computed once,
\* before the call that receives it
The(set) == CHOOSE x \in set : TRUE

RECURSIVE UpdatePoseAll(_, _)
\* UpdatePose on every model of the list ms, in list order
UpdatePoseAll(S, ms) ==
  IF ms = <<>> THEN S
  ELSE The({UpdatePoseAll(S1, Tail(ms)) : S1 \in {UpdatePose(S, Head(ms))}})

RECURSIVE UpdateIfDueAll(_, _)
\* UpdateIfDue on every model of the list ms, in list order
UpdateIfDueAll(S, ms) ==
  IF ms = <<>> THEN S
  ELSE The({UpdateIfDueAll(S1, Tail(ms)) : S1 \in {UpdateIfDue(S, Head(ms))}})

\* one tick of the world: the clock advances, the models of the velocity list
\* move, the models of the update list are updated if due, the tick is counted
Tick(S) ==
  The({[S3 EXCEPT !.w.updates = @ + 1] :
         S3 \in {UpdateIfDueAll(S2, S2.w.update_list) :
                   S2 \in {UpdatePoseAll(S1, S1.w.velocity_list) :
                             S1 \in {[S EXCEPT !.w.sim_time = @ + S.w.interval_sim]}}}})

-----------------------------------------------------------------------------
(* The trail: one model moves ahead at 1 m/s, a tick is a tenth of a second *)

TrailTick == 100000    \* interval_sim of this world, in usec
MaxTrailTicks == 1012  \* the world is not ticked beyond MaxTrailTicks ticks

TrailRun ==
  SetVelocity(Construct(EmptyState(TrailTick, 0), NULL, FALSE), 0, Pose(10, 0, 0, 0))

DoTrailTick ==
  /\ world.updates < MaxTrailTicks
  /\ Commit(Tick(Cur), Call("Tick", NULL, NULL, NULL))

InitTrail == Started(TrailRun)
NextTrail == DoTrailTick
SpecTrail == InitTrail /\ [][NextTrail]_vars

\* C15: the trail of a moving model never holds more than 100 entries
C15_TrailBounded ==
  \A m \in Ids : Len(mods[m].trail) <= TrailLength

\* C16: a checkpoint (pose, color, sim_time) is appended on exactly the
\* UpdatePose calls made while the world's update counter is a multiple of
\* 10, and the oldest entry of the trail is less than 1000 ticks older than
\* the current sim_time
C16_TrailSampling ==
  [][\A m \in Ids :
       (op'.name = "Tick" /\ list_find(world.velocity_list, m)) =>
         /\ IF world.updates % TrailPeriod = 0
            THEN /\ mods'[m].trail # <<>>
                 /\ mods'[m].trail[Len(mods'[m].trail)] =
                      [pose |-> mods[m].pose, color |-> mods[m].color,
                       time |-> world'.sim_time]
                 /\ Len(mods'[m].trail) >= Len(mods[m].trail)
            ELSE mods'[m].trail = mods[m].trail
         /\ mods'[m].trail # <<>> =>
              world'.sim_time - mods'[m].trail[1].time
                < TrailLength * TrailPeriod * world.interval_sim
  ]_vars

-----------------------------------------------------------------------------
(* Updates: two models are subscribed and unsubscribed while the world     *)
(* ticks every 4 ms; a model's own interval is the constructor's 10 ms     *)

UpdateTick == 4000    \* interval_sim of this world, in usec
MaxTicks == 6         \* the world is not ticked beyond MaxTicks ticks

TickModels ==
  Construct(Construct(EmptyState(UpdateTick, 0), NULL, FALSE), NULL, TRUE)

DoTick ==
  /\ world.updates < MaxTicks
  /\ Commit(Tick(Cur), Call("Tick", NULL, NULL, NULL))

InitTick == Started(TickModels)
NextTick ==
  \/ \E m \in Ids : DoSubscribe(m)
  \/ \E m \in Ids : DoUnsubscribe(m)
  \/ DoTick
SpecTick == InitTick /\ [][NextTick]_vars

\* C19: after every tick of the world, every model on the update list has
\* sim_time - last_update < interval; in the tick UpdateIfDue calls Update
\* exactly when sim_time >= last_update + interval, and Update runs the
\* update callbacks and sets last_update to the current sim_time
C19_UpdatedWhenDue ==
  [][op'.name = "Tick" =>
       /\ world'.sim_time = world.sim_time + world.interval_sim
       /\ \A m \in Ids :
            /\ list_find(world'.update_list, m) =>
                 world'.sim_time - mods'[m].last_update < mods'[m].interval
            /\ IF /\ list_find(world.update_list, m)
                  /\ world'.sim_time >= mods[m].last_update + mods[m].interval
               THEN /\ Ran(log', "update_hook", m) = 1
                    /\ mods'[m].last_update = world'.sim_time
               ELSE /\ Ran(log', "update_hook", m) = 0
                    /\ mods'[m].last_update = mods[m].last_update
  ]_vars

\* a tick has updated one model and left alone another that is on the list
\* as well but was updated two ticks ago
C19_Witness ==
  /\ op.name = "Tick"
  /\ \E m \in Ids : /\ list_find(world.update_list, m)
                    /\ mods[m].last_update = world.sim_time
                    /\ log = <<<<"update_hook", m>>>>
  /\ \E m \in Ids : /\ list_find(world.update_list, m)
                    /\ mods[m].last_update = world.sim_time - 2 * world.interval_sim

-----------------------------------------------------------------------------
(* Poses: a parent and its child, which turns at three quarter turns a     *)
(* second, are posed locally and globally with headings beyond a full turn *)

PoseArgs == {ZeroPose, Pose(10, 0, 2, 1), Pose(0, 0, 0, 6)}
TurnArgs == {ZeroPose, Pose(0, 0, 0, -5)}
GlobalArgs == {Pose(10, 10, 3, 7), Pose(0, 0, 0, -3)}
LocalArgs == {Pose(10, 0, 2, 1), Pose(0, 0, 0, 6)}

PoseRun == SetVelocity(TwoModels, 1, Pose(0, 0, 0, 3))

DoArgSetPose(m, p) ==
  Commit(SetPose(Cur, m, p), Call("SetPose", m, p, NULL))

DoAddToPose(m, d) ==
  Commit(AddToPose(Cur, m, d), Call("AddToPose", m, NULL, NULL))

DoSetGlobalPose(m, g) ==
  Commit(SetGlobalPose(Cur, m, g), Call("SetGlobalPose", m, g, NULL))

DoTurn ==
  Commit(UpdatePose(Cur, 1), Call("UpdatePose", 1, NULL, NULL))

\* the caller composes p with the model's global pose and converts it back
DoGlobalToLocal(m, p) ==
  \E f \in {GetGlobalPose(Cur, m)} :
    \E r \in {GlobalToLocal(f.S, m, pose_sum(f.ret, p))} :
      Commit(r.S, Call("GlobalToLocal", m, p, r.ret))

InitPose == Started(PoseRun)
NextPose ==
  \/ \E m \in Ids, p \in PoseArgs : DoArgSetPose(m, p)
  \/ \E d \in TurnArgs : DoAddToPose(1, d)
  \/ \E g \in GlobalArgs : DoSetGlobalPose(1, g)
  \/ DoTurn
  \/ \E m \in Ids, p \in LocalArgs : DoGlobalToLocal(m, p)
SpecPose == InitPose /\ [][NextPose]_vars

\* C17: the heading of every model's local pose is normalized, whatever
\* headings SetPose, AddToPose, SetGlobalPose and UpdatePose were given:
\* pose.a lies in (-pi, pi], that is in -1 .. 2 quarter turns
C17_HeadingNormalized ==
  \A m \in Ids : mods[m].pose.a \in -1..2

\* the child's heading is minus a quarter turn after an AddToPose of minus
\* five quarter turns, under a parent that is itself turned
C17_Witness ==
  /\ op.name = "AddToPose"
  /\ mods[1].pose.a = -1
  /\ mods[0].pose.a = 1

\* C18: SetPose(p) on a model whose pose is p already runs the pose
\* callbacks once and changes nothing else: no block is unmapped or mapped,
\* no flag is set, and the global pose is the same before and after
C18_SamePoseNoWork ==
  [][\A m \in Ids :
       (op'.name = "SetPose" /\ op'.m = m /\ op'.arg = mods[m].pose) =>
         /\ log' = <<<<"pose", m>>>>
         /\ mods' = mods
         /\ world' = world
         /\ GetGlobalPose(Nxt, m).ret = GetGlobalPose(Cur, m).ret
  ]_vars

\* a model that has never been posed, and so is not rendered, has been set
\* to the pose it has, next to a child that is rendered
C18_Witness ==
  /\ op.name = "SetPose"
  /\ op.arg = mods[op.m].pose
  /\ log = <<<<"pose", op.m>>>>
  /\ mods[op.m].blocks[1].rendered_points = <<>>
  /\ \E n \in Ids : mods[n].blocks[1].rendered_points # <<>>

\* C20: GlobalToLocal inverts pose_sum on x, y, z and heading: for the
\* model's global pose f and every pose p, pose_sum(f, p) is converted to p,
\* with the heading normalized into (-pi, pi]
C20_GlobalToLocalInverts ==
  op.name = "GlobalToLocal" =>
    op.ret = [op.arg EXCEPT !.a = normalize(@)]

-----------------------------------------------------------------------------
(* Destruction: three models that are posed, given velocities, subscribed   *)
(* to and destroyed                                                         *)

\* StgWorld::RemoveModel
RemoveModel(S, m) == [S EXCEPT !.w.models = @ \ {m}]

\* StgModel::~StgModel, after which the object is gone
Destroy(S, m) ==
  LET S1 == UnMap(S, m)
      parent == S1.mods[m].parent
      S2 == IF parent # NULL
            THEN [S1 EXCEPT !.mods[parent].children = list_remove(@, m)]
            ELSE [S1 EXCEPT !.w.children = list_remove(@, m)]
      S3 == [S2 EXCEPT !.byid = @ \ {m}]
      S4 == RemoveModel(S3, m)
  IN [S4 EXCEPT !.mods = [i \in (DOMAIN @) \ {m} |-> @[i]]]

DestroyVelocities == {ZeroPose, Pose(5, 0, 0, 0)}

\* the first subscription to a model
DoFirstSubscribe(m) ==
  /\ mods[m].subs = 0
  /\ Commit(Subscribe(Cur, m), Call("Subscribe", m, NULL, NULL))

\* the destructor of a model without children; the children of a model are
\* deleted by the destructor of its base class
DoDestroy(m) ==
  /\ mods[m].children = <<>>
  /\ Commit(Destroy(Cur, m), Call("~StgModel", m, NULL, NULL))

InitDestroy == Started(ThreeModels)
NextDestroy ==
  \/ \E m \in Ids \cap {1, 2}, v \in DestroyVelocities : DoSetVelocity(m, v)
  \/ \E m \in Ids \cap {1, 2} : DoFirstSubscribe(m)
  \/ \E m \in Ids \cap {1, 2} : DoSetPose(m, Pose(10, 0, 0, 0))
  \/ \E m \in Ids : DoDestroy(m)
SpecDestroy == InitDestroy /\ [][NextDestroy]_vars

\* the models that have been constructed and destroyed
Destroyed == (0..(count - 1)) \ Ids

\* C21: nothing of a destroyed model is left in the shared state: no entry
\* of the raster index is of one of its blocks, no child list holds it, the
\* by-id table and the world's model table do not hold it, and it is on
\* neither the world's velocity list nor its update list
C21_NoTraceLeft ==
  \A d \in Destroyed :
    /\ \A pix \in DOMAIN world.index :
         \A k \in 1..Len(world.index[pix]) : world.index[pix][k].mod # d
    /\ ~list_find(world.children, d)
    /\ \A m \in Ids : ~list_find(mods[m].children, d)
    /\ d \notin modelsbyid
    /\ d \notin world.models
    /\ ~list_find(world.velocity_list, d)
    /\ ~list_find(world.update_list, d)

-----------------------------------------------------------------------------
(* The order of a tick: three models start and stop turning, in the order  *)
(* of their ids, while the world ticks once a second                       *)

MaxOrderTicks == 3   \* the world is not ticked once it has counted MaxOrderTicks updates

OrderVelocities == {ZeroPose, Pose(0, 0, 0, 1)}

\* a model is put on the velocity list only after every model of a smaller
\* id that is on it: the listed models were inserted in the order of ids
DoOrderedVelocity(m, v) ==
  /\ (velocity_is_nonzero(v) /\ ~mods[m].on_velocity_list) =>
       \A k \in 1..Len(world.velocity_list) : world.velocity_list[k] < m
  /\ Commit(SetVelocity(Cur, m, v), Call("SetVelocity", m, v, NULL))

DoOrderTick ==
  /\ world.updates < MaxOrderTicks
  /\ Commit(Tick(Cur), Call("Tick", NULL, NULL, NULL))

InitOrder == Started(ThreeModels)
NextOrder ==
  \/ \E m \in Ids, v \in OrderVelocities : DoOrderedVelocity(m, v)
  \/ DoOrderTick
SpecOrder == InitOrder /\ [][NextOrder]_vars

\* the models UpdatePose ran on, in the order of the calls: every call sets
\* the stall flag and so runs the stall callbacks once
UpdateOrder(lg) ==
  LET calls == SelectSeq(lg, LAMBDA e : e[1] = "stall")
  IN [i \in 1..Len(calls) |-> calls[i][2]]

\* C22 as stated: a tick updates the listed models in the order in which
\* they were inserted, here the order of their ids
C22_AsStated ==
  op.name = "Tick" =>
    \A i, j \in 1..Len(UpdateOrder(log)) :
      i < j => UpdateOrder(log)[i] < UpdateOrder(log)[j]

\* C22: a model that starts to move is put at the head of the velocity
\* list, before the models already on it, and a tick updates the listed
\* models from the head of the list: the most recently inserted model is
\* updated first
C22_NewestFirst ==
  [][/\ op'.name = "Tick" => UpdateOrder(log') = world.velocity_list
     /\ \A m \in Ids :
          (/\ op'.name = "SetVelocity"
           /\ op'.m = m
           /\ ~list_find(world.velocity_list, m)
           /\ list_find(world'.velocity_list, m)) =>
            world'.velocity_list = <<m>> \o world.velocity_list
  ]_vars

\* a tick has updated all three models, the last one inserted first
C22_Witness ==
  /\ op.name = "Tick"
  /\ world.velocity_list = <<2, 1, 0>>
  /\ UpdateOrder(log) = <<2, 1, 0>>

-----------------------------------------------------------------------------
(* What callbacks observe: two models are given velocities, subscribed to,  *)
(* unsubscribed from and re-parented while the world ticks every 4 ms; each *)
(* call hands back what its callbacks could observe when they ran           *)

MaxSeenTicks == 3   \* the world is not ticked beyond MaxSeenTicks ticks

DoSeenVelocity(m, v) ==
  LET S == SetVelocity(Cur, m, v)
  IN Commit(S, Call("SetVelocity", m, v, S.seen))

DoSeenSubscribe(m) ==
  /\ mods[m].subs = 0
  /\ LET S == Subscribe(Cur, m)
     IN Commit(S, Call("Subscribe", m, NULL, S.seen))

DoSeenUnsubscribe(m) ==
  /\ mods[m].subs = 1
  /\ LET S == Unsubscribe(Cur, m)
     IN Commit(S, Call("Unsubscribe", m, NULL, S.seen))

DoSeenSetParent(m, np) ==
  /\ np # m
  /\ LET S == SetParent(Cur, m, np)
     IN Commit(S, Call("SetParent", m, np, S.seen))

DoSeenTick ==
  /\ world.updates < MaxSeenTicks
  /\ \E S \in {Tick(Cur)} : Commit(S, Call("Tick", NULL, NULL, S.seen))

InitSeen == Started(TickModels)
NextSeen ==
  \/ \E v \in DestroyVelocities : DoSeenVelocity(0, v)
  \/ \E m \in Ids : DoSeenSubscribe(m)
  \/ \E m \in Ids : DoSeenUnsubscribe(m)
  \/ \E np \in {NULL, 0} : DoSeenSetParent(1, np)
  \/ DoSeenTick
SpecSeen == InitSeen /\ [][NextSeen]_vars

\* C23: the callbacks of a mutating operation run after the operation's
\* changes: what a callback observes of the changed attribute, of the list
\* memberships and, for Update, of last_update is what holds on return
C23_CallbacksSeeFinalState ==
  op.name # "construct" =>
    \A k \in 1..Len(op.ret) :
      LET s == op.ret[k] IN
        /\ s.key = "velocity" =>
             /\ s.me.velocity = mods[s.m].velocity
             /\ s.me.on_velocity_list = mods[s.m].on_velocity_list
             /\ s.velocity_list = world.velocity_list
        /\ s.key \in {"startup_hook", "shutdown_hook"} =>
             /\ s.me.subs = mods[s.m].subs
             /\ s.update_list = world.update_list
        /\ s.key = "parent" =>
             /\ s.me.parent = mods[s.m].parent
             /\ s.me.parent # NULL => list_find(s.parent_children, s.m)
        /\ s.key = "stall" => s.me.stall = mods[s.m].stall
        /\ s.key = "pose" => s.me.pose = mods[s.m].pose
        /\ s.key = "update_hook" => s.me.last_update = s.sim_time

-----------------------------------------------------------------------------
(* Scaling: the blocks of one model are cleared, added, mapped and scaled   *)

MaxBlocks == 2   \* AddBlock is not called on a model that has MaxBlocks blocks

\* a square, a segment of no width and a segment of no height
ScaleOutlines ==
  {RectPoints(-5, -5, 10, 10),
   <<Point(0, 0), Point(0, 10)>>,
   <<Point(0, 0), Point(10, 0)>>}

\* the Z bands of a block: a metre high, and of no height at the ground
ScaleBands == {<<0, 10>>, <<0, 0>>}

ScaleSizes == {Size(20, 10, 4), Size(10, 10, 0)}

\* no coordinate of a block of m is a NaN or an infinity
Finite(ms, m) ==
  \A i \in 1..Len(ms[m].blocks) :
    LET b == ms[m].blocks[i] IN
      /\ {b.zmin, b.zmax} \cap {NaN, Inf, -Inf} = {}
      /\ \A p \in 1..Len(b.pts) : {b.pts[p].x, b.pts[p].y} \cap {NaN} = {}

DoClearBlocks(m) ==
  /\ Finite(mods, m)
  /\ Commit(ClearBlocks(Cur, m), Call("ClearBlocks", m, NULL, NULL))

DoAddBlock(m, pts, band) ==
  /\ Finite(mods, m)
  /\ Len(mods[m].blocks) < MaxBlocks
  /\ Commit(AddBlock(Cur, m, pts, band[1], band[2]), Call("AddBlock", m, NULL, NULL))

DoMap(m) ==
  /\ Finite(mods, m)
  /\ \A i \in 1..Len(mods[m].blocks) : mods[m].blocks[i].rendered_points = <<>>
  /\ Commit(Map(Cur, m), Call("Map", m, NULL, NULL))

DoScaleList(m, size) ==
  /\ Finite(mods, m)
  /\ Commit(ScaleList(Cur, m, size), Call("ScaleList", m, size, NULL))

InitScale == Started(Construct(EmptyState(UsecPerSec, 1), NULL, FALSE))
NextScale ==
  \/ DoClearBlocks(0)
  \/ \E pts \in ScaleOutlines, band \in ScaleBands : DoAddBlock(0, pts, band)
  \/ DoMap(0)
  \/ \E size \in ScaleSizes : DoScaleList(0, size)
SpecScale == InitScale /\ [][NextScale]_vars

\* C24: ScaleList on an empty list changes nothing; on any other list it
\* fails no assertion, leaves every block unmapped, puts every point within
\* half the size of the origin with the bounding box on all four sides, and
\* multiplies every zmin and zmax by size.z / (the largest zmax before)
C24_ScaleList ==
  [][op'.name = "ScaleList" =>
       LET m == op'.m
           size == op'.arg
           before == mods[m].blocks
           after == mods'[m].blocks
           maxz == MaxOf({0} \cup {before[i].zmax : i \in 1..Len(before)})
           pts == AllPoints(after)
       IN IF before = <<>> THEN mods' = mods /\ world' = world
          ELSE /\ log' = <<>>
               /\ Finite(mods', m)
               /\ \A i \in 1..Len(after) : after[i].rendered_points = <<>>
               /\ \A pix \in DOMAIN world'.index :
                    \A k \in 1..Len(world'.index[pix]) : world'.index[pix][k].mod # m
               /\ \A q \in pts : /\ Abs(q.x) <= size.x \div 2
                                 /\ Abs(q.y) <= size.y \div 2
               /\ \E q \in pts : q.x = -(size.x \div 2)
               /\ \E q \in pts : q.x = size.x \div 2
               /\ \E q \in pts : q.y = -(size.y \div 2)
               /\ \E q \in pts : q.y = size.y \div 2
               /\ \A i \in 1..Len(after) :
                    /\ after[i].zmax * maxz = before[i].zmax * size.z
                    /\ after[i].zmin * maxz = before[i].zmin * size.z
  ]_vars

-----------------------------------------------------------------------------
(* Moving a subtree: a chain of three models, each the parent of the next,  *)
(* any of them set to a pose it does not have                               *)

\* model 0 at the top level, 1 its child, 2 the child of 1
ChainModels ==
  Construct(Construct(Construct(EmptyState(UsecPerSec, 1), NULL, FALSE), 0, FALSE), 1, FALSE)

ChainPoses == {ZeroPose, Pose(10, 0, 0, 1), Pose(0, 20, 1, -3)}

DoMovePose(m, p) ==
  /\ p # mods[m].pose
  /\ Commit(SetPose(Cur, m, p), Call("SetPose", m, p, NULL))

InitChain == Started(ChainModels)
NextChain ==
  \/ \E m \in Ids, p \in ChainPoses : DoMovePose(m, p)
  \/ DoMovePose(2, Pose(-10, 0, 0, 2))
SpecChain == InitChain /\ [][NextChain]_vars

RECURSIVE ComposedPoseIn(_, _)
\* the global pose of m among the models ms: the poses of m's ancestors and
\* of m composed from the root down, raised by the height of every ancestor
ComposedPoseIn(ms, m) ==
  IF ms[m].parent = NULL THEN ms[m].pose
  ELSE LET up == ComposedPoseIn(ms, ms[m].parent)
           l == ms[m].pose
       IN [x |-> up.x + l.x * Cos(up.a) - l.y * Sin(up.a),
           y |-> up.y + l.x * Sin(up.a) + l.y * Cos(up.a),
           z |-> up.z + l.z + ms[ms[m].parent].geom.size.z,
           a |-> normalize(up.a + l.a)]

\* where vertex p of block i of model m lies in the world
GlobalVertex(ms, m, i, p) ==
  LET b == ms[m].blocks[i]
      o == pose_sum(ComposedPoseIn(ms, m), ms[m].geom.pose)
  IN [x |-> o.x + b.pts[p].x * Cos(o.a) - b.pts[p].y * Sin(o.a),
      y |-> o.y + b.pts[p].x * Sin(o.a) + b.pts[p].y * Cos(o.a),
      z |-> o.z + b.zmin]

\* the pixels the outline of block i of model m crosses, edge by edge
Footprint(ms, m, i) ==
  stg_polygon_3d([p \in 1..Len(ms[m].blocks[i].pts) |->
                    <<MetersToPixels(GlobalVertex(ms, m, i, p).x),
                      MetersToPixels(GlobalVertex(ms, m, i, p).y)>>])

\* block i of model m is in the index w once, at its footprint and nowhere else
MappedAtFootprint(ms, w, m, i) ==
  \A fp \in {Footprint(ms, m, i)} :
    /\ Len(ms[m].blocks[i].rendered_points) = Len(fp)
    /\ \A pix \in (DOMAIN w.index) \cup {fp[k] : k \in 1..Len(fp)} :
         EntriesOf(w.index, ms[m].blocks[i].id, {pix}) = Occurrences(fp, pix)

\* C25: SetPose with a pose the model does not have marks the model and
\* every descendant gpose-dirty before it maps them, and on return every
\* block of the model and of every descendant is in the index once, at the
\* footprint its owner's new global pose gives, and nowhere else
C25_SubtreeRemapped ==
  [][\A m \in Ids :
       (op'.name = "SetPose" /\ op'.m = m /\ op'.arg # mods[m].pose) =>
         \A d \in {e \in Ids : IsBelow(mods', m, e)} :
           /\ GPoseDirtyTree(Cur, m).mods[d].gpose_dirty
           /\ \A i \in 1..Len(mods'[d].blocks) : MappedAtFootprint(mods', world', d, i)
  ]_vars

\* the top of the chain has been moved and turned after the model at the
\* bottom was moved within its parent
C25_Witness ==
  /\ op.name = "SetPose"
  /\ op.m = 0
  /\ mods[0].pose = Pose(10, 0, 0, 1)
  /\ mods[2].pose = Pose(0, 20, 1, 1)
  /\ mods[2].blocks[1].rendered_points # <<>>

-----------------------------------------------------------------------------
(* Collision tests: three models at the top level; two of them are placed   *)
(* beside the first or on it, one loses and regains obstacle_return, one    *)
(* loses its blocks, and the first and the last are tested for a collision  *)
(* where they stand or a metre ahead                                        *)

\* three models at the top level, none of them posed or mapped yet
ThreeTop ==
  Construct(Construct(Construct(EmptyState(UsecPerSec, 1), NULL, FALSE), NULL, FALSE),
            NULL, FALSE)

\* a metre to the left and a metre to the right of the origin
HitPoses == {Pose(0, 10, 0, 0), Pose(0, -10, 0, 0)}

HitDeltas == {ZeroPose, Pose(10, 0, 0, 0)}

DoTestCollision(m, posedelta) ==
  \E r \in {TestCollision(Cur, m, posedelta)} :
    Commit(r.S, Call("TestCollision", m, posedelta, r.ret))

InitHit == Started(ThreeTop)
NextHit ==
  \/ \E m \in {1, 2}, p \in HitPoses : DoSetPose(m, p)
  \/ \E val \in {0, 1} : DoSetObstacleReturn(1, val)
  \/ DoMap(0)
  \/ DoClearBlocks(2)
  \/ \E m \in {0, 2}, posedelta \in HitDeltas : DoTestCollision(m, posedelta)
SpecHit == InitHit /\ [][NextHit]_vars

\* the model each edge ray of m hits, in the order of the rays, with m's own
\* blocks out of the index
EdgeHits(S, m, posedelta) ==
  LET bs == S.mods[m].blocks
      edges == EdgeOrder(bs)
  IN The({[k \in 1..Len(edges) |->
             LET ray == EdgeRay(bs[edges[k][1]], edges[k][2], posedelta)
             IN ModelRaytrace(U, m, ray.pose, ray.range, "collision_match", TRUE).ret.mod]
          : U \in {UnMap(S, m)}})

\* C26 as stated: when edges hit, TestCollision returns the model hit by
\* the first edge, in block order and then edge order, that hit
C26_AsStated ==
  [][op'.name = "TestCollision" =>
       \A hits \in {EdgeHits(Cur, op'.m, op'.arg)} :
         \A k \in 1..Len(hits) :
           (hits[k] # NULL /\ \A j \in 1..(k - 1) : hits[j] = NULL) => op'.ret = hits[k]
  ]_vars

\* C26: when edges hit, TestCollision returns the model hit by the last
\* edge, in block order and then edge order, that hit
C26_LastHit ==
  [][op'.name = "TestCollision" =>
       \A hits \in {EdgeHits(Cur, op'.m, op'.arg)} :
         \A k \in 1..Len(hits) :
           (hits[k] # NULL /\ \A j \in (k + 1)..Len(hits) : hits[j] = NULL) => op'.ret = hits[k]
  ]_vars

\* model 0 stands between the other two: its first edge hits model 2, its
\* last edge hits model 1, and model 1 has been returned
C26_Witness ==
  /\ op.name = "TestCollision"
  /\ op.m = 0
  /\ op.ret = 1
  /\ \A hits \in {EdgeHits(Cur, 0, op.arg)} :
       /\ hits[1] = 2
       /\ hits[Len(hits)] = 1

\* C27: the model TestCollision returns, when it returns one, is not the
\* model tested and has obstacle_return set, and a model without blocks gets
\* null
C27_OtherObstacleOnly ==
  op.name = "TestCollision" =>
    /\ op.ret # NULL => /\ op.ret # op.m
                        /\ mods[op.ret].obstacle_return
    /\ mods[op.m].blocks = <<>> => op.ret = NULL

\* model 0 stands between the other two and model 1, at its last edge, has
\* obstacle_return cleared: model 2 has been returned
C27_Witness ==
  /\ op.name = "TestCollision"
  /\ op.m = 0
  /\ op.arg = ZeroPose
  /\ op.ret = 2
  /\ ~mods[1].obstacle_return
  /\ mods[1].pose = Pose(0, 10, 0, 0)
  /\ mods[1].blocks[1].rendered_points # <<>>

-----------------------------------------------------------------------------
(* Moving with a geometry offset: scenario S2, where the mover's geometry   *)
(* origin is also turned or shifted within the model                        *)

\* the body a metre square and a metre high; its origin at the model's, a
\* quarter turn round, or half a metre ahead
OffsetGeoms ==
  {[size |-> Size(10, 10, 10), pose |-> ZeroPose],
   [size |-> Size(10, 10, 10), pose |-> Pose(0, 0, 0, 1)],
   [size |-> Size(10, 10, 10), pose |-> Pose(5, 0, 0, 0)]}

OffsetVelocities ==
  {ZeroPose, Pose(5, 0, 0, 0), Pose(20, 0, 0, 0), Pose(0, 5, 0, 0), Pose(5, 0, 0, 1)}

InitOffset == Started(ScenarioS2)
NextOffset ==
  \/ \E g \in OffsetGeoms : DoSetGeom(0, g)
  \/ \E v \in OffsetVelocities : DoMoveVelocity(0, v)
  \/ DoUpdatePose(0)
SpecOffset == InitOffset /\ [][NextOffset]_vars

\* an obstacle-returning block of a model other than m, with z in its band,
\* holds the pixel pix
Obstructed(m, pix, z) ==
  \E k \in 1..Len(CellList(world.index, pix)) :
    LET l == CellList(world.index, pix)[k] IN
      /\ l.mod # m
      /\ mods[l.mod].obstacle_return
      /\ BlockOf(Cur, l).global_zmin <= z
      /\ z <= BlockOf(Cur, l).global_zmax

\* C28: the footprint TestCollision tests is the one the model occupies
\* once UpdatePose has committed the move, whatever the geometry offset and
\* the turn of the delta: after an update that did not stall, no pixel of an
\* edge of the mover is held by an obstacle-returning block of another
\* model whose Z band contains the mover's base Z
C28_TestedIsOccupied ==
  \A m \in Ids :
    (op.name = "UpdatePose" /\ op.m = m /\ ~mods[m].stall) =>
      \A i \in 1..Len(mods[m].blocks) :
        \A fp \in {Footprint(mods, m, i)} :
          \A k \in 1..Len(fp) :
            ~Obstructed(m, fp[k], GlobalVertex(mods, m, i, 1).z - mods[m].blocks[i].zmin)

\* C29: every mapped block is in the index at the footprint, and has recorded
\* the global Z band, that its owner's current global pose and geometry
\* give, also after SetGeom on an ancestor and after SetParent
C29_MappedWhereItIs ==
  \A m \in Ids :
    \A i \in 1..Len(mods[m].blocks) :
      mods[m].blocks[i].rendered_points # <<>> =>
        /\ MappedAtFootprint(mods, world, m, i)
        /\ mods[m].blocks[i].global_zmin = GlobalVertex(mods, m, i, 1).z
        /\ mods[m].blocks[i].global_zmax =
             GlobalVertex(mods, m, i, 1).z + (mods[m].blocks[i].zmax - mods[m].blocks[i].zmin)

-----------------------------------------------------------------------------
(* Probing: scenario S2, where the mover is also mapped by hand and tested  *)
(* for collisions where it stands, a metre ahead and two metres ahead, and  *)
(* the other model loses and regains obstacle_return                        *)

ProbeVelocities == {ZeroPose, Pose(5, 0, 0, 0), Pose(20, 0, 0, 0), Pose(0, 5, 0, 0)}

ProbeDeltas == {ZeroPose, Pose(10, 0, 0, 0), Pose(20, 0, 0, 1)}

InitProbe == Started(ScenarioS2)
NextProbe ==
  \/ \E v \in ProbeVelocities : DoMoveVelocity(0, v)
  \/ DoUpdatePose(0)
  \/ DoMap(0)
  \/ \E val \in {0, 1} : DoSetObstacleReturn(1, val)
  \/ \E posedelta \in ProbeDeltas : DoTestCollision(0, posedelta)
SpecProbe == InitProbe /\ [][NextProbe]_vars

\* C30: TestCollision on a model with blocks, each of them in the index
\* once at its footprint, returns with the index holding the entries and the
\* counters it held before, with every block of the model in it once, and
\* with the model's pose, velocity and stall flag as they were; and
\* UpdatePose returns with every block of the model mapped
C30_ReadOnly ==
  [][\A m \in Ids :
       /\ ( /\ op'.name = "TestCollision"
            /\ op'.m = m
            /\ mods[m].blocks # <<>>
            /\ \A i \in 1..Len(mods[m].blocks) : MappedAtFootprint(mods, world, m, i) ) =>
              /\ Entries(world'.index) = Entries(world.index)
              /\ world'.c1 = world.c1
              /\ world'.c2 = world.c2
              /\ \A i \in 1..Len(mods'[m].blocks) : MappedAtFootprint(mods', world', m, i)
              /\ mods'[m].pose = mods[m].pose
              /\ mods'[m].velocity = mods[m].velocity
              /\ mods'[m].stall = mods[m].stall
       /\ (op'.name = "UpdatePose" /\ op'.m = m) =>
              \A i \in 1..Len(mods'[m].blocks) : MappedAtFootprint(mods', world', m, i)
  ]_vars

\* the mover, half a metre on after an update, has been tested a metre
\* ahead of where it stands and has hit the other model
C30_Witness ==
  /\ op.name = "TestCollision"
  /\ op.arg = Pose(10, 0, 0, 0)
  /\ op.ret = 1
  /\ mods[0].pose = Pose(5, 0, 0, 0)
  /\ mods[0].blocks[1].rendered_points # <<>>

-----------------------------------------------------------------------------
(* The child lists against the parent pointers *)

\* C31: every model is once in the child list of its parent, or of the world
\* when it has no parent, and in no other child list
C31_LinksConsistent ==
  \A m \in Ids :
    /\ Occurrences(world.children, m) = (IF mods[m].parent = NULL THEN 1 ELSE 0)
    /\ \A p \in Ids :
         Occurrences(mods[p].children, m) = (IF mods[m].parent = p THEN 1 ELSE 0)

-----------------------------------------------------------------------------
(* The subscription counts *)

RECURSIVE SumSubs(_, _)
\* the sum of the subscription counts of the models ids of ms
SumSubs(ms, ids) ==
  IF ids = {} THEN 0
  ELSE LET m == CHOOSE i \in ids : TRUE
       IN ms[m].subs + SumSubs(ms, ids \ {m})

\* C32: after every Subscribe and Unsubscribe no model's count is negative,
\* the world's total_subs is the sum of the counts, and the shutdown path
\* runs only for a model that was started, that is, on the update list
C32_CountsSound ==
  [][/\ \A m \in Ids : mods'[m].subs >= 0
     /\ world'.total_subs = SumSubs(mods', Ids)
     /\ \A m \in Ids :
          Ran(log', "shutdown_hook", m) > 0 => list_find(world.update_list, m)
  ]_vars

-----------------------------------------------------------------------------
(* SetGlobalPose and GetGlobalPose *)

\* C33: after SetGlobalPose( g ) GetGlobalPose returns g in x, y and z, with
\* the heading of g normalized
C33_RoundTrip ==
  op.name = "SetGlobalPose" =>
    GetGlobalPose(Cur, op.m).ret = [op.arg EXCEPT !.a = normalize(@)]

-----------------------------------------------------------------------------
(* Velocity in the global frame *)

\* what the z of a local stg_velocity_t that is never assigned can hold
Indeterminate == {0, 7}

\* StgModel::GetGlobalVelocity; gv.z is never assigned, it holds junk
GetGlobalVelocity(S, m, junk) ==
  LET r == GetGlobalPose(S, m)
      gpose == r.ret
      velocity == r.S.mods[m].velocity
  IN [S |-> r.S,
      ret |-> [x |-> velocity.x * Cos(gpose.a) - velocity.y * Sin(gpose.a),
               y |-> velocity.x * Sin(gpose.a) + velocity.y * Cos(gpose.a),
               z |-> junk,
               a |-> velocity.a]]

\* StgModel::SetGlobalVelocity; lv.z is never assigned, it holds junk
SetGlobalVelocity(S, m, gv, junk) ==
  LET r == GetGlobalPose(S, m)
      gpose == r.ret
      lv == [x |-> gv.x * Cos(gpose.a) + gv.y * Sin(gpose.a),
             y |-> -gv.x * Sin(gpose.a) + gv.y * Cos(gpose.a),
             z |-> junk,
             a |-> gv.a]
  IN SetVelocity(r.S, m, lv)

GlobalHeadings == {Pose(0, 0, 0, 0), Pose(0, 0, 0, 1), Pose(0, 0, 0, 2), Pose(0, 0, 0, -1)}
LocalVelocities == {ZeroPose, Pose(5, 0, 0, 0), Pose(5, -10, 2, 1), Pose(0, 0, 3, 0)}
GlobalVelocities == {ZeroPose, Pose(0, 5, 0, 1)}

\* SetGlobalVelocity( GetGlobalVelocity() )
DoGlobalVelocityRoundTrip(m) ==
  \E j1 \in Indeterminate, j2 \in Indeterminate :
    \E g \in {GetGlobalVelocity(Cur, m, j1)} :
      Commit(SetGlobalVelocity(g.S, m, g.ret, j2),
             Call("SetGlobalVelocity( GetGlobalVelocity() )", m, g.ret, NULL))

DoSetGlobalVelocity(m, gv) ==
  \E junk \in Indeterminate :
    Commit(SetGlobalVelocity(Cur, m, gv, junk), Call("SetGlobalVelocity", m, gv, NULL))

InitGVel == Started(TwoModels)
NextGVel ==
  \/ \E m \in Ids, p \in GlobalHeadings : DoSetPose(m, p)
  \/ \E v \in LocalVelocities : DoSetVelocity(1, v)
  \/ DoGlobalVelocityRoundTrip(1)
  \/ \E gv \in GlobalVelocities : DoSetGlobalVelocity(1, gv)
SpecGVel == InitGVel /\ [][NextGVel]_vars

\* C34: SetGlobalVelocity( GetGlobalVelocity() ) leaves x, y, z and a of the
\* velocity as they were, and SetGlobalVelocity of the all-zero velocity leaves
\* the model with zero velocity and off the velocity list, at every heading
C34_VelocityRoundTrip ==
  [][/\ op'.name = "SetGlobalVelocity( GetGlobalVelocity() )" =>
          mods'[op'.m].velocity = mods[op'.m].velocity
     /\ op'.name = "SetGlobalVelocity" =>
          (op'.arg = ZeroPose =>
             /\ mods'[op'.m].velocity = ZeroPose
             /\ ~mods'[op'.m].on_velocity_list
             /\ ~list_find(world'.velocity_list, op'.m))
  ]_vars

-----------------------------------------------------------------------------
(* The flag list.  A flag is a pointer to a StgFlag; NULL is the null one. *)

MaxFlags == 3
Flags == {1, 2}

\* StgModel::AddFlag
AddFlag(S, m, flag) ==
  IF flag # NULL
  THEN [S EXCEPT !.mods[m].flag_list = list_append(@, flag)]
  ELSE S

\* StgModel::RemoveFlag
RemoveFlag(S, m, flag) ==
  IF flag # NULL
  THEN [S EXCEPT !.mods[m].flag_list = list_remove(@, flag)]
  ELSE S

\* PushFlag that puts the flag at the end of the list
PushFlag_Append(S, m, flag) ==
  IF flag # NULL
  THEN [S EXCEPT !.mods[m].flag_list = list_append(@, flag)]
  ELSE S

\* StgModel::PushFlag
PushFlag(S, m, flag) ==
  IF flag # NULL
  THEN [S EXCEPT !.mods[m].flag_list = list_prepend(@, flag)]
  ELSE S

\* StgModel::PopFlag
PopFlag(S, m) ==
  IF S.mods[m].flag_list = <<>>
  THEN [S |-> S, ret |-> NULL]
  ELSE LET flag == Head(S.mods[m].flag_list)
       IN [S |-> [S EXCEPT !.mods[m].flag_list = list_remove(@, flag)],
           ret |-> flag]

DoAddFlag(m, flag) ==
  /\ Len(mods[m].flag_list) < MaxFlags
  /\ Commit(AddFlag(Cur, m, flag), Call("AddFlag", m, flag, NULL))

DoRemoveFlag(m, flag) ==
  Commit(RemoveFlag(Cur, m, flag), Call("RemoveFlag", m, flag, NULL))

DoPushFlag(m, flag) ==
  /\ Len(mods[m].flag_list) < MaxFlags
  /\ Commit(PushFlag(Cur, m, flag), Call("PushFlag", m, flag, NULL))

DoPopFlag(m) ==
  \E r \in {PopFlag(Cur, m)} :
    Commit(r.S, Call("PopFlag", m, NULL, r.ret))

InitFlag == Started(TwoModels)
NextFlag ==
  \/ \E m \in Ids, flag \in Flags \cup {NULL} : DoAddFlag(m, flag)
  \/ \E m \in Ids, flag \in Flags \cup {NULL} : DoRemoveFlag(m, flag)
  \/ \E m \in Ids, flag \in Flags \cup {NULL} : DoPushFlag(m, flag)
  \/ \E m \in Ids : DoPopFlag(m)
SpecFlag == InitFlag /\ [][NextFlag]_vars

RECURSIVE Pops(_, _, _)
\* what n calls of PopFlag return, in order
Pops(S, m, n) ==
  IF n = 0 THEN <<>>
  ELSE LET r == PopFlag(S, m) IN <<r.ret>> \o Pops(r.S, m, n - 1)

\* C35: PopFlag after PushFlag( f ) returns f and leaves the list as it was
\* before the push; two pushes are popped in reverse order; a flag given to
\* AddFlag is popped after all the flags already held; PopFlag on an empty list
\* returns null and changes nothing; AddFlag, PushFlag and RemoveFlag of the
\* null flag change nothing
C35_FlagStack ==
  [][\A was \in {mods[op'.m].flag_list} :
       /\ (op'.name = "PushFlag" /\ op'.arg # NULL) =>
            \A r \in {PopFlag(Nxt, op'.m)} :
              /\ r.ret = op'.arg
              /\ r.S.mods = mods
              /\ \A g \in Flags :
                   Pops(PushFlag(Nxt, op'.m, g), op'.m, 2) = <<g, op'.arg>>
       /\ (op'.name = "AddFlag" /\ op'.arg # NULL) =>
            Pops(Nxt, op'.m, Len(was) + 1) = was \o <<op'.arg>>
       /\ op'.name = "PopFlag" =>
            IF was = <<>>
            THEN op'.ret = NULL /\ mods' = mods /\ world' = world
            ELSE op'.ret = Head(was) /\ mods'[op'.m].flag_list = Tail(was)
       /\ (op'.name \in {"AddFlag", "PushFlag", "RemoveFlag"} /\ op'.arg = NULL) =>
            mods' = mods /\ world' = world
  ]_vars

C35_Witness ==
  /\ op.name = "PopFlag"
  /\ op.ret \in Flags
  /\ Len(mods[op.m].flag_list) = MaxFlags - 1
  /\ op.ret \notin {mods[op.m].flag_list[i] : i \in 1..Len(mods[op.m].flag_list)}

====
